---- MODULE Spec2Model ----
(***************************************************************************)
(* The request-time pipeline of the Distill chatbot backend: the chat      *)
(* handler of the Cloudflare Worker, the KV-backed rate limiter, keyword   *)
(* retrieval and the provider-agnostic generation call.                    *)
(*                                                                         *)
(* Text is a sequence of one-character strings, so that trimming, case     *)
(* folding, tokenising and substring search are computed and not assumed.  *)
(***************************************************************************)
EXTENDS Integers, Sequences, FiniteSets, TLC

(* ------------------------------------------------------------------ *)
(* Program constants                                                   *)
(* ------------------------------------------------------------------ *)
VISITOR_LIMIT == 10
IP_LIMIT == 100
HOUR_IN_SECONDS == 3600
DAY_IN_SECONDS == 86400
TOP_N == 5

(* ------------------------------------------------------------------ *)
(* Bounds of the model                                                 *)
(* ------------------------------------------------------------------ *)
\* Requests served in one behaviour of Spec.
MaxRequests == 3
\* Requests served in one behaviour of SpecFail.
MaxFailRequests == 2
\* Requests served in one behaviour of SpecRoute.
MaxRouteRequests == 2
\* Requests of one behaviour of SpecRace, all of which may overlap.
MaxRaceRequests == 2
\* requests served after the ranker's inputs were drawn, and the largest
\* topN it is called with
MaxRankRequests == 1
MaxTopN == 3
\* the longest message list handed to the payload builders
MaxMessages == 3
\* session identifiers one client makes up beyond the address limit
MaxOver == 2
\* Clock ticks of ClockStep seconds in Spec and SpecRace, of ClockStepSeq
\* seconds in SpecSeq.
MaxTicks == 2
MaxTicksSeq == 13
\* The ghost request counters stop counting this far past a limit.
GhostSlack == 2

ClockStep == HOUR_IN_SECONDS \div 2
ClockStepSeq == 2 * HOUR_IN_SECONDS

Min(a, b) == IF a < b THEN a ELSE b

(* ------------------------------------------------------------------ *)
(* Text                                                                *)
(* ------------------------------------------------------------------ *)
UpperChars == <<"A","B","C","D","E","F","G","H","I","J","K","L","M",
                "N","O","P","Q","R","S","T","U","V","W","X","Y","Z">>
LowerChars == <<"a","b","c","d","e","f","g","h","i","j","k","l","m",
                "n","o","p","q","r","s","t","u","v","w","x","y","z">>
DigitChars == {"0","1","2","3","4","5","6","7","8","9"}
SpaceChars == {" ", "\t", "\n", "\r"}

Range(f) == {f[i] : i \in DOMAIN f}

\* String.prototype.toLowerCase, one character
LowerChar(c) ==
    IF \E i \in 1..26 : UpperChars[i] = c
    THEN LowerChars[CHOOSE i \in 1..26 : UpperChars[i] = c]
    ELSE c

toLowerCase(s) == [i \in 1..Len(s) |-> LowerChar(s[i])]

\* \w of a JavaScript regular expression: [A-Za-z0-9_]
IsWordChar(c) ==
    c \in Range(UpperChars) \cup Range(LowerChars) \cup DigitChars \cup {"_"}

\* \s of a JavaScript regular expression
IsSpace(c) == c \in SpaceChars

\* .replace(/[^\w\s]/g, ' ')
StripPunct(s) ==
    [i \in 1..Len(s) |-> IF IsWordChar(s[i]) \/ IsSpace(s[i]) THEN s[i] ELSE " "]

\* .split(/\s+/): the pieces between maximal runs of whitespace; a leading or
\* trailing run leaves an empty piece, and "" splits into <<"">>.
RECURSIVE SplitFrom(_, _, _, _)
SplitFrom(s, i, cur, inRun) ==
    IF i > Len(s) THEN <<cur>>
    ELSE IF IsSpace(s[i])
         THEN IF inRun THEN SplitFrom(s, i + 1, cur, TRUE)
              ELSE <<cur>> \o SplitFrom(s, i + 1, <<>>, TRUE)
         ELSE SplitFrom(s, i + 1, Append(cur, s[i]), FALSE)

SplitWs(s) == SplitFrom(s, 1, <<>>, FALSE)

\* String.prototype.trim
RECURSIVE TrimLeft(_)
TrimLeft(s) ==
    IF s # <<>> /\ IsSpace(Head(s)) THEN TrimLeft(Tail(s)) ELSE s

RECURSIVE TrimRight(_)
TrimRight(s) ==
    IF s # <<>> /\ IsSpace(s[Len(s)])
    THEN TrimRight(SubSeq(s, 1, Len(s) - 1))
    ELSE s

trim(s) == TrimRight(TrimLeft(s))

\* String.prototype.includes
includes(hay, needle) ==
    \E i \in 0..(Len(hay) - Len(needle)) :
        \A j \in 1..Len(needle) : hay[i + j] = needle[j]


(* ------------------------------------------------------------------ *)
(* Retrieval (rag-retrieval.js)                                        *)
(* ------------------------------------------------------------------ *)
\* A field an entry does not have (JavaScript undefined).
Undefined == <<"<undefined>">>

\* JavaScript truthiness of a text-valued field
Truthy(x) == x # Undefined /\ x # <<>>

\* a || b
OrElse(a, b) == IF Truthy(a) THEN a ELSE b

stopWords == {
    <<"a">>, <<"a","n">>, <<"a","n","d">>, <<"a","r","e">>, <<"a","s">>,
    <<"a","t">>, <<"b","e">>, <<"b","y">>, <<"f","o","r">>,
    <<"f","r","o","m">>, <<"h","a","s">>, <<"h","e">>, <<"s","h","e">>,
    <<"i","n">>, <<"i","s">>, <<"i","t">>, <<"i","t","s">>, <<"o","f">>,
    <<"o","n">>, <<"t","h","a","t">>, <<"t","h","e">>, <<"t","o">>,
    <<"w","a","s">>, <<"w","i","l","l">>, <<"w","i","t","h">>,
    <<"w","h","a","t">>, <<"w","h","e","n">>, <<"w","h","e","r","e">>,
    <<"w","h","o">>, <<"h","o","w">>, <<"d","o","e","s">>, <<"d","i","d">>,
    <<"c","a","n">>, <<"c","o","u","l","d">>, <<"w","o","u","l","d">>,
    <<"s","h","o","u","l","d">>, <<"a","b","o","u","t">>, <<"m","e">>,
    <<"t","e","l","l">>, <<"y","o","u">>, <<"y","o","u","r">>, <<"m","y">>,
    <<"i">>, <<"d","o">>, <<"h","a","v","e">>, <<"b","e","e","n">>,
    <<"t","h","e","i","r">>, <<"t","h","e","y">>, <<"t","h","i","s">>,
    <<"w","h","i","c","h">>, <<"s","o","m","e">>
}

IsKeyword(word) == Len(word) > 2 /\ word \notin stopWords

\* extractKeywords without its toLowerCase.
extractKeywords_KeepsCase(question) ==
    SelectSeq(SplitWs(StripPunct(question)), IsKeyword)

extractKeywords(question) ==
    SelectSeq(SplitWs(StripPunct(toLowerCase(question))), IsKeyword)

RECURSIVE SumSeq(_)
SumSeq(ns) == IF ns = <<>> THEN 0 ELSE Head(ns) + SumSeq(Tail(ns))

\* The tag point given once for every tag that contains the keyword.
FieldPoints_PerTag(entry, keyword) ==
    LET content == toLowerCase(OrElse(entry.content, OrElse(entry.answer, <<>>)))
        topic   == toLowerCase(OrElse(entry.topic, <<>>))
        title   == toLowerCase(OrElse(entry.title, <<>>))
        tagList == IF entry.tags = Undefined THEN <<>> ELSE entry.tags
        tags    == [i \in 1..Len(tagList) |-> toLowerCase(tagList[i])]
    IN  (IF includes(content, keyword) THEN 3 ELSE 0)
      + (IF includes(topic, keyword) THEN 2 ELSE 0)
      + (IF includes(title, keyword) THEN 2 ELSE 0)
      + Cardinality({i \in 1..Len(tags) : includes(tags[i], keyword)})

\* the points one keyword adds in the first forEach of scoreEntry
FieldPoints(entry, keyword) ==
    LET content == toLowerCase(OrElse(entry.content, OrElse(entry.answer, <<>>)))
        topic   == toLowerCase(OrElse(entry.topic, <<>>))
        title   == toLowerCase(OrElse(entry.title, <<>>))
        tagList == IF entry.tags = Undefined THEN <<>> ELSE entry.tags
        tags    == [i \in 1..Len(tagList) |-> toLowerCase(tagList[i])]
    IN  (IF includes(content, keyword) THEN 3 ELSE 0)
      + (IF includes(topic, keyword) THEN 2 ELSE 0)
      + (IF includes(title, keyword) THEN 2 ELSE 0)
      + (IF \E i \in 1..Len(tags) : includes(tags[i], keyword) THEN 1 ELSE 0)

\* The question match counted like a content match.
QuestionPoints_AsContent(entry, kw) ==
    IF entry.type = "qa_pair" /\ Truthy(entry.question)
       /\ includes(toLowerCase(entry.question), kw)
    THEN 3 ELSE 0

\* the points one keyword adds in the qa_pair bonus loop
QuestionPoints(entry, kw) ==
    IF entry.type = "qa_pair" /\ Truthy(entry.question)
       /\ includes(toLowerCase(entry.question), kw)
    THEN 5 ELSE 0

\* The bonus given whatever the confidence of the entry.
VerifiedBonus_Everyone(entry) == 1

VerifiedBonus(entry) == IF entry.confidence = "verified" THEN 1 ELSE 0

scoreEntry(entry, keywords) ==
      SumSeq([i \in 1..Len(keywords) |-> FieldPoints(entry, keywords[i])])
    + SumSeq([i \in 1..Len(keywords) |-> QuestionPoints(entry, keywords[i])])
    + VerifiedBonus(entry)

\* Array.prototype.slice(0, n)
SliceTo(xs, n) ==
    IF n >= 0 THEN SubSeq(xs, 1, Min(n, Len(xs)))
    ELSE SubSeq(xs, 1, IF Len(xs) + n > 0 THEN Len(xs) + n ELSE 0)

\* The comparator turned round: a.score - b.score.
RECURSIVE InsertByScore_Ascending(_, _)
InsertByScore_Ascending(sorted, item) ==
    IF sorted = <<>> THEN <<item>>
    ELSE IF Head(sorted).score <= item.score
         THEN <<Head(sorted)>> \o InsertByScore_Ascending(Tail(sorted), item)
         ELSE <<item>> \o sorted

\* A sort that is not stable: of two equal scores the later entry goes first.
RECURSIVE InsertByScore_TiesReversed(_, _)
InsertByScore_TiesReversed(sorted, item) ==
    IF sorted = <<>> THEN <<item>>
    ELSE IF Head(sorted).score > item.score
         THEN <<Head(sorted)>> \o InsertByScore_TiesReversed(Tail(sorted), item)
         ELSE <<item>> \o sorted

\* Array.prototype.sort((a, b) => b.score - a.score): stable, descending.
RECURSIVE InsertByScore(_, _)
InsertByScore(sorted, item) ==
    IF sorted = <<>> THEN <<item>>
    ELSE IF Head(sorted).score >= item.score
         THEN <<Head(sorted)>> \o InsertByScore(Tail(sorted), item)
         ELSE <<item>> \o sorted

\* The sort left out: the scored entries stay in corpus order.
SortByScore_CorpusOrder(items) == items

RECURSIVE SortByScore(_)
SortByScore(items) ==
    IF items = <<>> THEN <<>>
    ELSE InsertByScore(SortByScore(SubSeq(items, 1, Len(items) - 1)),
                       items[Len(items)])

IsAboutNarrative(e) == e.type = "narrative" /\ e.topic = <<"a","b","o","u","t">>

HasScore(item) == item.score > 0

\* retrieveEntries without its branch for questions without keywords.
retrieveEntries_NoFallback(question, knowledgeBase, topN) ==
    LET keywords == extractKeywords(question)
        all == [i \in 1..Len(knowledgeBase) |->
                   [entry |-> knowledgeBase[i],
                    score |-> scoreEntry(knowledgeBase[i], keywords)]]
        top == SliceTo(SortByScore(SelectSeq(all, HasScore)), topN)
    IN  [i \in 1..Len(top) |-> top[i].entry]

retrieveEntries(question, knowledgeBase, topN) ==
    LET keywords == extractKeywords(question)
    IN  IF Len(keywords) = 0
        THEN SliceTo(SelectSeq(knowledgeBase, IsAboutNarrative), topN)
        ELSE LET all == [i \in 1..Len(knowledgeBase) |->
                            [entry |-> knowledgeBase[i],
                             score |-> scoreEntry(knowledgeBase[i], keywords)]]
                 scored == SortByScore(SelectSeq(all, HasScore))
                 top == SliceTo(scored, topN)
             IN  [i \in 1..Len(top) |-> top[i].entry]

\* The sort applied to the array retrieveEntries was given instead of a copy.
CorpusAfterRetrieve_SortsInPlace(question, knowledgeBase, topN) ==
    LET keywords == extractKeywords(question)
        all == [i \in 1..Len(knowledgeBase) |->
                   [entry |-> knowledgeBase[i],
                    score |-> scoreEntry(knowledgeBase[i], keywords)]]
        sorted == SortByScore(all)
    IN  IF Len(keywords) = 0 THEN knowledgeBase
        ELSE [i \in 1..Len(sorted) |-> sorted[i].entry]

\* The array retrieveEntries was given, as the call leaves it: filter
\* (line 73) and map (line 78) build arrays of their own, sort (line 81)
\* orders the array filter built, in place, and slice copies from that one.
CorpusAfterRetrieve(question, knowledgeBase, topN) ==
    LET keywords == extractKeywords(question)
        all == [i \in 1..Len(knowledgeBase) |->
                   [entry |-> knowledgeBase[i],
                    score |-> scoreEntry(knowledgeBase[i], keywords)]]
        scored == SortByScore(SelectSeq(all, HasScore))
    IN  knowledgeBase

(* ------------------------------------------------------------------ *)
(* Rate limiter (rate-limiter.js)                                      *)
(* ------------------------------------------------------------------ *)
\* kv.get of a key that is not stored (JavaScript null)
Null == [null |-> TRUE]

\* The store maps each stored key to the JSON value put under it and the
\* instant its expirationTtl runs out.  JSON.stringify followed by the JSON
\* read of {count, resetAt} keeps both integers, so the value is the record.
KvGet(store, key, clock) ==
    IF key \in DOMAIN store /\ clock < store[key].exp
    THEN store[key].value ELSE Null

KvPut(store, key, value, ttl, clock) ==
    [k \in DOMAIN store \cup {key} |->
        IF k = key THEN [value |-> value, exp |-> clock + ttl] ELSE store[k]]

\* the store drops the keys whose time to live has run out
KvPurge(store, clock) ==
    [k \in {x \in DOMAIN store : clock < store[x].exp} |-> store[k]]

\* `session:${sessionId}` and `ip:${ipAddress}`: the two prefixes differ, so
\* a key is the pair of its prefix and the identifier.
sessionKey(sessionId) == <<"session", sessionId>>
ipKey(ipAddress) == <<"ip", ipAddress>>

SessionReason ==
    <<"Rate limit exceeded. You can send ", VISITOR_LIMIT, " messages per hour.">>
IpReason ==
    <<"IP rate limit exceeded. Maximum ", IP_LIMIT, " messages per day.">>

Allowed == [allowed |-> TRUE, reason |-> <<>>, retryAfter |-> -1]
Denied(reason, retryAfter) ==
    [allowed |-> FALSE, reason |-> reason, retryAfter |-> retryAfter]

\* The session check going by the count alone.
SessionDenies_CountOnly(sessionData, t) ==
    /\ sessionData # Null
    /\ sessionData.count >= VISITOR_LIMIT

\* rate-limiter.js line 33
\* The session check with the comparison of line 33 taken strictly.
SessionDenies_Strict(sessionData, t) ==
    /\ sessionData # Null
    /\ t < sessionData.resetAt
    /\ sessionData.count > VISITOR_LIMIT

SessionDenies(sessionData, t) ==
    /\ sessionData # Null
    /\ t < sessionData.resetAt
    /\ sessionData.count >= VISITOR_LIMIT

\* The session record with its window moved on by every admitted request.
SessionWrite_Sliding(sessionData, t) ==
    IF sessionData # Null /\ t < sessionData.resetAt
    THEN [count |-> sessionData.count + 1, resetAt |-> t + HOUR_IN_SECONDS]
    ELSE [count |-> 1, resetAt |-> t + HOUR_IN_SECONDS]

\* rate-limiter.js lines 41-48: the value put under the session key
SessionWrite(sessionData, t) ==
    IF sessionData # Null /\ t < sessionData.resetAt
    THEN [count |-> sessionData.count + 1, resetAt |-> sessionData.resetAt]
    ELSE [count |-> 1, resetAt |-> t + HOUR_IN_SECONDS]

\* The address check with the comparison of line 55 taken strictly.
IpDenies_Strict(ipData, t) ==
    /\ ipData # Null
    /\ t < ipData.resetAt
    /\ ipData.count > IP_LIMIT

\* rate-limiter.js line 55
IpDenies(ipData, t) ==
    /\ ipData # Null
    /\ t < ipData.resetAt
    /\ ipData.count >= IP_LIMIT

\* The address record carried over into the next window instead of reset.
IpWrite_CarriesOver(ipData, t) ==
    IF ipData # Null
    THEN [count |-> ipData.count + 1,
          resetAt |-> IF t < ipData.resetAt THEN ipData.resetAt
                      ELSE t + DAY_IN_SECONDS]
    ELSE [count |-> 1, resetAt |-> t + DAY_IN_SECONDS]

\* rate-limiter.js lines 63-70: the value put under the IP key
IpWrite(ipData, t) ==
    IF ipData # Null /\ t < ipData.resetAt
    THEN [count |-> ipData.count + 1, resetAt |-> ipData.resetAt]
    ELSE [count |-> 1, resetAt |-> t + DAY_IN_SECONDS]

(* hashString: a 32-bit rolling hash, kept in two 16-bit halves so that   *)
(* no intermediate value leaves the 32-bit range.                         *)
CharCode(c) ==
    IF \E i \in 1..26 : LowerChars[i] = c
    THEN 96 + (CHOOSE i \in 1..26 : LowerChars[i] = c)
    ELSE IF \E i \in 1..26 : UpperChars[i] = c
    THEN 64 + (CHOOSE i \in 1..26 : UpperChars[i] = c)
    ELSE CASE c = "0" -> 48 [] c = "1" -> 49 [] c = "2" -> 50 [] c = "3" -> 51
           [] c = "4" -> 52 [] c = "5" -> 53 [] c = "6" -> 54 [] c = "7" -> 55
           [] c = "8" -> 56 [] c = "9" -> 57 [] c = " " -> 32 [] c = "-" -> 45
           [] c = "." -> 46 [] c = "/" -> 47 [] c = ":" -> 58 [] c = "_" -> 95
           [] c = "?" -> 63 [] c = "," -> 44

\* ((hash << 5) - hash) + code, then hash & hash: 31 * hash + code as int32
HashStep(hash, code) ==
    LET lo  == hash % 65536
        hi  == (hash - lo) \div 65536
        l2  == 31 * lo + code
        lo2 == l2 % 65536
        h2  == (31 * hi + (l2 \div 65536)) % 65536
        hi2 == IF h2 >= 32768 THEN h2 - 65536 ELSE h2
    IN  hi2 * 65536 + lo2

RECURSIVE HashFrom(_, _, _)
HashFrom(str, i, hash) ==
    IF i > Len(str) THEN hash
    ELSE HashFrom(str, i + 1, HashStep(hash, CharCode(str[i])))

Base36Digits == <<"0","1","2","3","4","5","6","7","8","9","a","b","c","d","e",
                  "f","g","h","i","j","k","l","m","n","o","p","q","r","s","t",
                  "u","v","w","x","y","z">>

\* Number.prototype.toString(36) of a non-negative integer
RECURSIVE ToBase36(_)
ToBase36(n) ==
    IF n < 36 THEN <<Base36Digits[n + 1]>>
    ELSE Append(ToBase36(n \div 36), Base36Digits[(n % 36) + 1])

\* Math.abs(hash).toString(36); Math.abs(-2^31) = 2^31 is "zik0zk"
hashString(str) ==
    LET hash == HashFrom(str, 1, 0)
    IN  IF hash = -2147483647 - 1 THEN <<"z","i","k","0","z","k">>
        ELSE ToBase36(IF hash < 0 THEN -hash ELSE hash)

Unknown == <<"u","n","k","n","o","w","n">>

\* The derived identifier hashing the forwarding header along with the agent.
getSessionId_WithForwarded(headers) ==
    IF Truthy(headers.xSessionId) THEN headers.xSessionId
    ELSE OrElse(headers.cfConnectingIp, Unknown) \o <<"-">>
           \o hashString(OrElse(headers.userAgent, Unknown)
                           \o OrElse(headers.xForwardedFor, <<>>))

\* headers.get returns null for a header that was not sent; as with an
\* empty value, a || b passes to b.
getSessionId(headers) ==
    IF Truthy(headers.xSessionId) THEN headers.xSessionId
    ELSE OrElse(headers.cfConnectingIp, Unknown) \o <<"-">>
           \o hashString(OrElse(headers.userAgent, Unknown))

\* .split(',')[0]
RECURSIVE BeforeComma(_)
BeforeComma(str) ==
    IF str = <<>> \/ Head(str) = "," THEN <<>>
    ELSE <<Head(str)>> \o BeforeComma(Tail(str))

getClientIP(headers) ==
    OrElse(headers.cfConnectingIp,
           OrElse(IF headers.xForwardedFor = Undefined THEN Undefined
                  ELSE BeforeComma(headers.xForwardedFor),
                  Unknown))

(* ------------------------------------------------------------------ *)
(* Generation (ai-integration.js)                                      *)
(* ------------------------------------------------------------------ *)
OpenAI == <<"o","p","e","n","a","i">>
Anthropic == <<"a","n","t","h","r","o","p","i","c">>

\* the keys of PROVIDERS
ProviderNames == {OpenAI, Anthropic}

\* generateResponse lines 113-118: the registry lookup
KnownProvider(providerName) == providerName \in ProviderNames

\* PROVIDERS[providerName].apiUrl
ApiUrl(providerName) ==
    IF providerName = Anthropic THEN "https://api.anthropic.com/v1/messages"
    ELSE "https://api.openai.com/v1/chat/completions"

\* PROVIDERS[providerName].authHeader: `Bearer ${key}` for openai, the key
\* itself for anthropic
authHeader(providerName, key) ==
    IF providerName = Anthropic THEN <<key>> ELSE <<"Bearer", key>>

\* a header the request does not have
NoHeader == <<>>

\* generateResponse lines 142-151: the headers of the call
RequestHeaders(providerName, apiKey) ==
    IF providerName = Anthropic
    THEN [contentType |-> "application/json",
          xApiKey |-> authHeader(providerName, apiKey),
          anthropicVersion |-> <<"2023-06-01">>,
          authorization |-> NoHeader]
    ELSE [contentType |-> "application/json",
          xApiKey |-> NoHeader,
          anthropicVersion |-> NoHeader,
          authorization |-> authHeader(providerName, apiKey)]

\* generateResponse lines 153-157: fetch(provider.apiUrl, { headers, ... })
FetchCall(providerName, apiKey) ==
    [state |-> "pending", provider |-> providerName,
     url |-> ApiUrl(providerName), headers |-> RequestHeaders(providerName, apiKey)]

\* What the provider's HTTP exchange can come to (lines 153-165):
\*   reject   fetch rejects (connection failure, or the platform gives up)
\*   status   a response whose ok is false
\*   badjson  response.json() rejects (empty or malformed body)
\*   empty    the choices / content list is missing or empty
\*   shape    the first element lacks message.content / text
\*   text     a well-formed answer carrying `content`
FetchOutcomes == {"reject", "status", "badjson", "empty", "shape", "text"}

\* extractResponse: the first element's text, trimmed
extractResponse(content) == trim(content)

GenerationFails(outcome) == outcome # "text"

(* ------------------------------------------------------------------ *)
(* Chat handler (index.js)                                             *)
(* ------------------------------------------------------------------ *)
\* JSON values of a request body, as far as the handler looks at them
JUndefined == [t |-> "undefined", s |-> <<>>, n |-> 0]
JNull      == [t |-> "null", s |-> <<>>, n |-> 0]
JNumber(n) == [t |-> "number", s |-> <<>>, n |-> n]
JBool(b)   == [t |-> "boolean", s |-> <<>>, n |-> IF b THEN 1 ELSE 0]
JString(s) == [t |-> "string", s |-> s, n |-> 0]
JObject    == [t |-> "object", s |-> <<>>, n |-> 0]

\* !v
Falsy(v) ==
    \/ v.t \in {"undefined", "null"}
    \/ v.t = "number" /\ v.n = 0
    \/ v.t = "boolean" /\ v.n = 0
    \/ v.t = "string" /\ v.s = <<>>

\* const { message } = body  throws a TypeError for null; a number, a
\* string or an array has no property of that name.
DestructureThrows(body) == body.t = "null"
MessageOf(body) == IF body.t = "object" THEN body.message ELSE JUndefined

\* The check of line 695 looking at the type of the message alone.
InvalidMessage_TypeOnly(message) == message.t # "string"

\* The check of line 695 without its trim.
InvalidMessage_NoTrim(message) ==
    \/ Falsy(message)
    \/ message.t # "string"

\* index.js line 695
InvalidMessage(message) ==
    \/ Falsy(message)
    \/ message.t # "string"
    \/ Len(trim(message.s)) = 0

\* Number.prototype.toString() of a non-negative integer
RECURSIVE ToDecimal(_)
ToDecimal(n) ==
    IF n < 10 THEN <<Base36Digits[n + 1]>>
    ELSE Append(ToDecimal(n \div 10), Base36Digits[(n % 10) + 1])

NoMessage == [src |-> "none", text |-> <<>>]
NoMatchMessage == [src |-> "NO_MATCH_RESPONSE", text |-> <<>>]
FallbackMessage == [src |-> "getFallbackResponse", text |-> <<>>]
AiMessage(text) == [src |-> "ai", text |-> text]

\* String.prototype.startsWith
StartsWith(str, prefix) ==
    Len(prefix) <= Len(str) /\ SubSeq(str, 1, Len(prefix)) = prefix

O_site ==
    <<"h","t","t","p","s",":","/","/","y","o","u","r","s","i","t","e",".",
      "c","o","m">>
O_www ==
    <<"h","t","t","p","s",":","/","/","w","w","w",".","y","o","u","r","s",
      "i","t","e",".","c","o","m">>
O_local3000 ==
    <<"h","t","t","p",":","/","/","l","o","c","a","l","h","o","s","t",":",
      "3","0","0","0">>
O_local8000 ==
    <<"h","t","t","p",":","/","/","l","o","c","a","l","h","o","s","t",":",
      "8","0","0","0">>

\* index.js lines 653-659
ALLOWED_ORIGINS == <<O_site, O_www, O_local3000, O_local8000>>

\* The header echoing whatever origin the request names.
getCorsHeaders_EchoAll(origin) ==
    IF origin # Undefined THEN origin ELSE ALLOWED_ORIGINS[1]

\* index.js lines 674-682: the value of Access-Control-Allow-Origin; a
\* request without the header has origin null, and null?.startsWith(...)
\* is undefined
getCorsHeaders(origin) ==
    LET isAllowed == /\ origin # Undefined
                     /\ \E i \in 1..Len(ALLOWED_ORIGINS) :
                            StartsWith(origin, ALLOWED_ORIGINS[i])
    IN  IF isAllowed THEN origin ELSE ALLOWED_ORIGINS[1]

\* body: what the Response is built from, JSON.stringify(...) unless the
\* router says otherwise
NoResponse ==
    [status |-> 0, allowOrigin |-> Undefined, body |-> "json",
     error |-> <<>>, retryAfter |-> -1, retryAfterHeader |-> <<>>,
     message |-> NoMessage, suggestions |-> FALSE, entriesFound |-> -1]

Response400 ==
    [NoResponse EXCEPT !.status = 400, !.error = <<"Please provide a message.">>]

\* The 429 of lines 707-719 without its headers entry for Retry-After.
Response429_NoHeader(rateLimitResult) ==
    [NoResponse EXCEPT !.status = 429,
                       !.error = rateLimitResult.reason,
                       !.retryAfter = rateLimitResult.retryAfter]

Response429(rateLimitResult) ==
    [NoResponse EXCEPT !.status = 429,
                       !.error = rateLimitResult.reason,
                       !.retryAfter = rateLimitResult.retryAfter,
                       !.retryAfterHeader = ToDecimal(rateLimitResult.retryAfter)]

\* The 500 of lines 776-782 with the error text alone.
Response500_NoMessage ==
    [NoResponse EXCEPT !.status = 500,
                       !.error = <<"Internal server error. Please try again.">>]

Response500 ==
    [NoResponse EXCEPT !.status = 500,
                       !.error = <<"Internal server error. Please try again.">>,
                       !.message = FallbackMessage]

\* index.js line 796
Response204 == [NoResponse EXCEPT !.status = 204, !.body = "null"]

\* index.js lines 801-810
ResponseHealth == [NoResponse EXCEPT !.status = 200]

\* index.js line 818
Response404 ==
    [NoResponse EXCEPT !.status = 404, !.body = "text", !.error = <<"Not Found">>]

ResponseNoMatch ==
    [NoResponse EXCEPT !.status = 200, !.message = NoMatchMessage,
                       !.suggestions = TRUE, !.entriesFound = 0]

\* The answer of lines 759-772 passing a failed generation on as 502.
ResponseChat_Upstream(aiResponse, n) ==
    [NoResponse EXCEPT !.status = IF aiResponse = FallbackMessage THEN 502 ELSE 200,
                       !.message = aiResponse,
                       !.suggestions = TRUE, !.entriesFound = n]

ResponseChat(aiResponse, n) ==
    [NoResponse EXCEPT !.status = 200, !.message = aiResponse,
                       !.suggestions = TRUE, !.entriesFound = n]

(* ------------------------------------------------------------------ *)
(* Context formatter (rag-retrieval.js)                                *)
(* ------------------------------------------------------------------ *)
\* the characters of the words entry.type and entry.confidence take
WordChars(word) ==
    CASE word = "qa_pair" -> <<"q","a","_","p","a","i","r">>
      [] word = "fact" -> <<"f","a","c","t">>
      [] word = "narrative" -> <<"n","a","r","r","a","t","i","v","e">>
      [] word = "verified" -> <<"v","e","r","i","f","i","e","d">>
      [] word = "inferred" -> <<"i","n","f","e","r","r","e","d">>
      [] word = "approximate" -> <<"a","p","p","r","o","x","i","m","a","t","e">>

\* `${x}` in a template literal
TextOf(x) == IF x = Undefined THEN <<"u","n","d","e","f","i","n","e","d">> ELSE x

\* Array.prototype.join
RECURSIVE Join(_, _)
Join(parts, sep) ==
    IF parts = <<>> THEN <<>>
    ELSE IF Len(parts) = 1 THEN parts[1]
    ELSE parts[1] \o sep \o Join(Tail(parts), sep)

Divider == <<"\n","-","-","-","\n","\n">>

\* rag-retrieval.js lines 91-107: the block of one entry; index counts from 0
FormatEntry(entry, index) ==
    <<"[","E","n","t","r","y"," ">> \o ToDecimal(index + 1) \o <<"]","\n">>
    \o <<"T","y","p","e",":"," ">> \o WordChars(entry.type) \o <<"\n">>
    \o <<"T","o","p","i","c",":"," ">> \o TextOf(entry.topic) \o <<"\n">>
    \o (IF Truthy(entry.title)
        THEN <<"T","i","t","l","e",":"," ">> \o entry.title \o <<"\n">> ELSE <<>>)
    \o (IF entry.type = "qa_pair"
        THEN <<"Q","u","e","s","t","i","o","n",":"," ">> \o TextOf(entry.question) \o <<"\n">>
             \o <<"A","n","s","w","e","r",":"," ">> \o TextOf(entry.answer) \o <<"\n">>
        ELSE <<"C","o","n","t","e","n","t",":"," ">> \o TextOf(entry.content) \o <<"\n">>)
    \o <<"C","o","n","f","i","d","e","n","c","e",":"," ">> \o WordChars(entry.confidence) \o <<"\n">>
    \o <<"T","a","g","s",":"," ">> \o Join(entry.tags, <<",", " ">>) \o <<"\n">>

\* what a call of the formatter comes to: a text, or an exception
Returned(text) == [threw |-> FALSE, text |-> text]
Thrown == [threw |-> TRUE, text |-> <<>>]

\* rag-retrieval.js lines 89-109; entry.tags.join throws a TypeError for an
\* entry without tags
formatEntriesForContext(entries) ==
    IF \E i \in 1..Len(entries) : entries[i].tags = Undefined
    THEN Thrown
    ELSE Returned(Join([i \in 1..Len(entries) |-> FormatEntry(entries[i], i - 1)],
                       Divider))

(* ------------------------------------------------------------------ *)
(* Provider payloads and replies (ai-integration.js)                   *)
(* ------------------------------------------------------------------ *)
Gemini == <<"g","e","m","i","n","i">>

IsSystem(m) == m.role = "system"
NotSystem(m) == m.role # "system"

\* PROVIDERS.openai.buildPayload; temperature is counted in tenths
buildPayloadOpenAI(messages, model, temperature, maxTokens) ==
    [model |-> model, messages |-> messages, temperature |-> temperature,
     max_tokens |-> maxTokens, system |-> Undefined,
     top_p |-> 1, frequency_penalty |-> 0, presence_penalty |-> 0]

\* The Anthropic payload built from the first system message only.
buildPayloadAnthropic_FirstSystem(messages, model, temperature, maxTokens) ==
    LET systemMessages == SelectSeq(messages, IsSystem)
    IN  [model |-> model, messages |-> SelectSeq(messages, NotSystem),
         temperature |-> temperature, max_tokens |-> maxTokens,
         system |-> IF systemMessages = <<>> THEN <<>> ELSE systemMessages[1].content,
         top_p |-> Undefined, frequency_penalty |-> Undefined,
         presence_penalty |-> Undefined]

\* PROVIDERS.anthropic.buildPayload
buildPayloadAnthropic(messages, model, temperature, maxTokens) ==
    LET systemMessages == SelectSeq(messages, IsSystem)
        nonSystemMessages == SelectSeq(messages, NotSystem)
        systemText == Join([i \in 1..Len(systemMessages) |-> systemMessages[i].content],
                           <<"\n", "\n">>)
    IN  [model |-> model, messages |-> nonSystemMessages,
         temperature |-> temperature, max_tokens |-> maxTokens,
         system |-> systemText,
         top_p |-> Undefined, frequency_penalty |-> Undefined,
         presence_penalty |-> Undefined]

\* an Error as the caller of generateResponse sees it: what its message
\* names of the provider and of the upstream status (0: no status in it)
ErrorValue(kind, provider, status) ==
    [kind |-> kind, provider |-> provider, status |-> status]
NoError == ErrorValue("none", Undefined, 0)

\* what a call comes to: a text, or an exception
GenReturned(text) == [threw |-> FALSE, text |-> text, error |-> NoError]
GenThrew(error) == [threw |-> TRUE, text |-> <<>>, error |-> error]

\* PROVIDERS[providerName].extractResponse(data): lines 60-65 and 86-91.
\* data.choices / data.content is absent or a list; the text of an element
\* is choices[i].message.content / content[i].text
extractResponseFrom(providerName, data) ==
    LET list == IF providerName = OpenAI THEN data.choices ELSE data.content
    IN  IF ~list.present \/ Len(list.items) = 0
        THEN GenThrew(ErrorValue("No response", providerName, 0))
        ELSE IF list.items[1].text = Undefined
        THEN GenThrew(ErrorValue("TypeError", Undefined, 0))
        ELSE GenReturned(extractResponse(list.items[1].text))

\* generateResponse lines 113-118: a provider that is not in PROVIDERS
UnknownProviderError(providerName) ==
    GenThrew(ErrorValue("Unknown AI provider", providerName, 0))

\* generateResponse lines 153-165, once fetch has settled
AfterFetch(providerName, exchange) ==
    IF exchange.rejected THEN GenThrew(ErrorValue("TypeError", Undefined, 0))
    ELSE IF ~exchange.ok
    THEN GenThrew(ErrorValue("API error", providerName, exchange.status))
    ELSE IF ~exchange.parseable
    THEN GenThrew(ErrorValue("SyntaxError", Undefined, 0))
    ELSE extractResponseFrom(providerName, exchange.data)

(* ------------------------------------------------------------------ *)
(* Inputs                                                              *)
(* ------------------------------------------------------------------ *)
T_about == <<"a","b","o","u","t">>
T_skills == <<"s","k","i","l","l","s">>
T_career == <<"c","a","r","e","e","r">>
T_languages == <<"l","a","n","g","u","a","g","e","s">>
T_overview == <<"O","v","e","r","v","i","e","w">>

EntryQa ==
    [id |-> "kb-qa", type |-> "qa_pair", topic |-> T_skills,
     confidence |-> "inferred", tags |-> <<T_languages, T_skills>>,
     content |-> Undefined, title |-> Undefined,
     question |-> <<"W","h","a","t"," ","l","a","n","g","u","a","g","e","s",
                    " ","d","o","e","s"," ","J","a","n","e"," ","k","n","o","w","?">>,
     answer |-> <<"J","a","n","e"," ","k","n","o","w","s"," ","P","y","t","h","o","n",".">>]

EntryFact ==
    [id |-> "kb-fact", type |-> "fact", topic |-> T_career,
     confidence |-> "approximate", tags |-> <<T_career>>,
     content |-> <<"J","a","n","e"," ","l","e","d"," ","a"," ","t","e","a","m",".">>,
     title |-> Undefined, question |-> Undefined, answer |-> Undefined]

EntryAbout ==
    [id |-> "kb-about", type |-> "narrative", topic |-> T_about,
     confidence |-> "verified", tags |-> <<T_overview>>,
     content |-> <<"J","a","n","e"," ","i","s"," ","a","n"," ","e","n","g","i","n","e","e","r",".">>,
     title |-> T_overview, question |-> Undefined, answer |-> Undefined]

\* an entry that was built into the knowledge base without its tags
EntryBare ==
    [id |-> "kb-bare", type |-> "fact", topic |-> T_career,
     confidence |-> "inferred", tags |-> Undefined,
     content |-> <<"J","a","n","e"," ","b","l","o","g","s",".">>,
     title |-> Undefined, question |-> Undefined, answer |-> Undefined]

T_programming == <<"p","r","o","g","r","a","m","m","i","n","g">>
T_python == <<"p","y","t","h","o","n">>
Q_prog ==
    <<"W","h","a","t"," ","p","r","o","g","r","a","m","m","i","n","g",
      " ","l","a","n","g","u","a","g","e","s"," ","d","o","e","s"," ",
      "J","a","n","e"," ","k","n","o","w","?">>

\* a question/answer entry as the test corpus has it (test-002)
EntryQaProg ==
    [id |-> "kb-qa-prog", type |-> "qa_pair", topic |-> T_skills,
     confidence |-> "verified", tags |-> <<T_programming, T_python>>,
     content |-> Undefined, title |-> Undefined,
     question |-> Q_prog,
     answer |-> <<"P","y","t","h","o","n"," ","a","n","d"," ","G","o",".">>]

\* the same knowledge stored as a fact: the answer is its content
EntryQaProgAsFact ==
    [id |-> "kb-prog-fact", type |-> "fact", topic |-> T_skills,
     confidence |-> "verified", tags |-> <<T_programming, T_python>>,
     content |-> <<"P","y","t","h","o","n"," ","a","n","d"," ","G","o",".">>,
     title |-> Undefined, question |-> Undefined, answer |-> Undefined]

\* the fact entry that matches EntryQa in everything but its kind
EntryQaAsFact ==
    [id |-> "kb-qa-fact", type |-> "fact", topic |-> T_skills,
     confidence |-> "inferred", tags |-> <<T_languages, T_skills>>,
     content |-> <<"J","a","n","e"," ","k","n","o","w","s"," ","P","y","t","h","o",
                 "n",".">>,
     title |-> Undefined, question |-> Undefined, answer |-> Undefined]

\* a fact whose every field speaks of programming languages
EntryFactProg ==
    [id |-> "kb-fact-prog", type |-> "fact", topic |-> T_programming,
     confidence |-> "verified", tags |-> <<T_programming, T_languages>>,
     content |-> <<"I"," ","k","n","o","w"," ","p","r","o","g","r","a","m","m","i",
                 "n","g"," ","l","a","n","g","u","a","g","e","s",".">>,
     title |-> <<"P","r","o","g","r","a","m","m","i","n","g"," ","l","a","n","g",
               "u","a","g","e","s"," ","I"," ","k","n","o","w">>,
     question |-> Undefined, answer |-> Undefined]

\* a second overview entry, not verified
EntryStory ==
    [id |-> "kb-story", type |-> "narrative", topic |-> T_about,
     confidence |-> "inferred", tags |-> <<>>,
     content |-> <<"J","a","n","e"," ","w","r","i","t","e","s"," ","s","o","f","t",
                 "w","a","r","e",".">>,
     title |-> Undefined, question |-> Undefined, answer |-> Undefined]

T_python3 == <<"p","y","t","h","o","n","3">>

\* a fact that names its subject in every field and in two of its tags
EntryPy ==
    [id |-> "kb-py", type |-> "fact", topic |-> T_python,
     confidence |-> "inferred", tags |-> <<T_python, T_career, T_python3>>,
     content |-> <<"P","y","t","h","o","n"," ","3"," ","s","c","r","i","p","t","s",".">>,
     title |-> <<"P","y","t","h","o","n">>,
     question |-> Undefined, answer |-> Undefined]

\* a verified fact that speaks of languages in its content only
EntryLangs ==
    [id |-> "kb-langs", type |-> "fact", topic |-> T_career,
     confidence |-> "verified", tags |-> <<T_career>>,
     content |-> <<"J","a","n","e"," ","s","p","e","a","k","s"," ","t","w","o"," ",
                 "l","a","n","g","u","a","g","e","s",".">>,
     title |-> Undefined, question |-> Undefined, answer |-> Undefined]

\* knowledge bases the worker may have been built with
Corpora == { <<EntryQa, EntryFact>>, <<EntryFact, EntryAbout, EntryQa>>, <<EntryBare>> }

\* knowledge bases handed to the ranker when it is called on its own
RankCorpora ==
    { <<>>,
      <<EntryFact, EntryAbout, EntryQa>>,
      <<EntryQaProg, EntryQaProgAsFact, EntryFact, EntryStory>>,
      <<EntryStory, EntryFactProg, EntryAbout, EntryQaProg>>,
      <<EntryQaAsFact, EntryQa, EntryBare>>,
      <<EntryAbout, EntryBare>>,
      <<EntryPy, EntryQaProg>>,
      <<EntryLangs, EntryQa>>,
      <<EntryBare>> }

M_stop  == <<"T","e","l","l"," ","m","e"," ","a","b","o","u","t"," ","t","h","e">>
M_none  == <<"x","y","z"," ","q","q","q">>
M_jane  == <<" ","W","h","a","t"," ","d","o","e","s"," ","J","a","n","e"," ","k","n","o","w","?">>
M_blank == <<" ","\t"," ">>
M_prog ==
    <<"W","h","a","t"," ","p","r","o","g","r","a","m","m","i","n","g",
      " ","l","a","n","g","u","a","g","e","s"," ","d","o"," ","y","o",
      "u"," ","k","n","o","w","?">>
M_empty == <<>>
M_lang == <<"W","h","i","c","h"," ","l","a","n","g","u","a","g","e","s","?">>
M_twice == <<"P","y","t","h","o","n",",","\t","P","Y","T","H","O","N"," ","v","3","?">>

\* questions handed to the ranker when it is called on its own
RankQuestions == {M_prog, M_stop, M_empty, M_none, M_jane, M_lang, M_twice}

Body(t, message) == [parseable |-> TRUE, t |-> t, message |-> message]
Unparseable == [parseable |-> FALSE, t |-> "undefined", message |-> JUndefined]

ValidBodies == { Body("object", JString(m)) : m \in {M_stop, M_none, M_jane} }

InvalidBodies ==
    { Unparseable,
      Body("null", JUndefined),
      Body("number", JUndefined),
      Body("string", JUndefined),
      Body("array", JUndefined),
      Body("object", JUndefined),
      Body("object", JNull),
      Body("object", JNumber(7)),
      Body("object", JBool(TRUE)),
      Body("object", JObject),
      Body("object", JString(<<>>)),
      Body("object", JString(M_blank)) }

Ip1 == <<"1",".","2">>
Sid1 == <<"s","1">>
Ua1 == <<"U","A","/","1">>

HeadersFrom(sid, ip, origin) ==
    [xSessionId |-> sid, cfConnectingIp |-> ip,
     xForwardedFor |-> Undefined, userAgent |-> Ua1, origin |-> origin]

\* a request that sends no Origin header
Headers(sid, ip) == HeadersFrom(sid, ip, Undefined)

HeaderSets == { Headers(Sid1, Ip1), Headers(Undefined, Ip1) }

RouteRequest(method, path, body, headers) ==
    [method |-> method, path |-> path, body |-> body, headers |-> headers]

\* POST /chat
Request(body, headers) == RouteRequest("POST", "/chat", body, headers)

AllRequests ==
    { Request(b, h) : b \in ValidBodies, h \in HeaderSets }
    \cup { Request(b, Headers(Sid1, Ip1)) : b \in InvalidBodies }

\* Origin headers: one that continues an allowed origin into another host,
\* one that stops short of an allowed origin, one unrelated
O_siteEvil ==
    <<"h","t","t","p","s",":","/","/","y","o","u","r","s","i","t","e",".",
      "c","o","m",".","e","v","i","l",".","i","o">>
O_short ==
    <<"h","t","t","p","s",":","/","/","y","o","u","r","s","i","t","e",".",
      "c","o">>
O_evil ==
    <<"h","t","t","p","s",":","/","/","e","v","i","l",".","i","o">>

Origins == {Undefined, O_site, O_local8000, O_siteEvil, O_short, O_evil}

RouteHeaderSets == { HeadersFrom(Sid1, Ip1, o) : o \in Origins }

\* what reaches the router: chat requests with and without a usable body,
\* and requests for the other routes
RouteRequests ==
    { RouteRequest("POST", "/chat", b, h) :
          b \in { Body("object", JString(M_jane)), Body("object", JString(M_none)),
                  Body("object", JString(M_blank)), Body("null", JUndefined),
                  Unparseable },
          h \in RouteHeaderSets }
    \cup { RouteRequest(m, p, Unparseable, h) :
              m \in {"OPTIONS", "GET", "PUT"}, p \in {"/chat", "/health"},
              h \in RouteHeaderSets }
    \cup { RouteRequest("POST", "/health", Unparseable, h) : h \in RouteHeaderSets }

\* the requests of a client that keeps asking one unanswerable question
PlainRequests == { Request(Body("object", JString(M_none)), Headers(Sid1, Ip1)) }

ProviderTexts == { <<" ","H","i",".","\n">>, <<>> }

\* the choices / content list of a reply: absent, empty, a first element
\* without text, or elements with text
NoList == [present |-> FALSE, items |-> <<>>]
List(items) == [present |-> TRUE, items |-> items]
ReplyLists ==
    { List(<<>>), List(<<[text |-> Undefined]>>) }
    \cup { List(<<[text |-> t], [text |-> <<"N","o">>]>>) : t \in ProviderTexts }

\* messages handed to the payload builders
Msg(role, content) == [role |-> role, content |-> content]
SomeMessages ==
    { Msg("system", <<"B","e"," ","b","r","i","e","f",".">>), Msg("system", <<"C","o","n","t","e","x","t",".">>),
      Msg("user", <<"H","e","l","l","o">>), Msg("assistant", <<"H","i">>) }
MessageLists == UNION { [1..k -> SomeMessages] : k \in 0..MaxMessages }

\* model, temperature in tenths, maxTokens
ArgSets ==
    { [model |-> "gpt-3.5-turbo", temperature |-> 7, maxTokens |-> 500],
      [model |-> "claude-haiku-4-5-20251001", temperature |-> 5, maxTokens |-> 1000] }

\* parsed response bodies: the list of an OpenAI reply is choices, that of
\* an Anthropic reply is content
Data(choices, content) == [choices |-> choices, content |-> content]
Datas ==
    { Data(NoList, NoList) }
    \cup { Data(l, NoList) : l \in ReplyLists }
    \cup { Data(NoList, l) : l \in ReplyLists }

\* what fetch comes to
Exchange(rejected, ok, status, parseable, data) ==
    [rejected |-> rejected, ok |-> ok, status |-> status,
     parseable |-> parseable, data |-> data]
NoExchange == Exchange(FALSE, FALSE, 0, FALSE, Data(NoList, NoList))
Exchanges ==
    { Exchange(TRUE, FALSE, 0, FALSE, Data(NoList, NoList)),
      Exchange(FALSE, FALSE, 429, TRUE, Data(NoList, NoList)),
      Exchange(FALSE, FALSE, 500, FALSE, Data(NoList, NoList)),
      Exchange(FALSE, TRUE, 200, FALSE, Data(NoList, NoList)) }
    \cup { Exchange(FALSE, TRUE, 200, TRUE, d) : d \in Datas }

\* one client at one address: the identifiers it makes up, one per request
FreshId(i) == <<"f">> \o ToDecimal(i)
FreshHeaderSets == { Headers(FreshId(i), Ip1) : i \in 1..(IP_LIMIT + MaxOver) }

\* the same client sending no session identifier: nothing else, an Origin, a
\* forwarding header, or an X-Session-ID header with an empty value
AnonHeaderSets ==
    { Headers(Undefined, Ip1), HeadersFrom(Undefined, Ip1, O_site),
      [Headers(Undefined, Ip1) EXCEPT !.xForwardedFor = <<"9",".","9">>],
      Headers(<<>>, Ip1) }

\* getSessionId, getClientIP and retrieveEntries over the inputs of the model
SessionIdOf ==
    [h \in HeaderSets \cup RouteHeaderSets \cup FreshHeaderSets \cup AnonHeaderSets |->
        getSessionId(h)]
ClientIpOf ==
    [h \in HeaderSets \cup RouteHeaderSets \cup FreshHeaderSets \cup AnonHeaderSets |->
        getClientIP(h)]
Messages == { b.message.s : b \in ValidBodies } \cup RankQuestions
Retrieved ==
    [c \in Corpora \cup RankCorpora |->
        [m \in Messages |-> retrieveEntries(m, c, TOP_N)]]

\* the two secrets of the deployment
OpenAIKey == "sk-openai"
AnthropicKey == "sk-ant"

Env(provider) ==
    [AI_PROVIDER |-> provider, OPENAI_API_KEY |-> OpenAIKey,
     ANTHROPIC_API_KEY |-> AnthropicKey]

Envs == { Env(Undefined), Env(<<"A","n","t","h","r","o","p","i","c">>),
          Env(<<"g","e","m","i","n","i">>) }

(* ------------------------------------------------------------------ *)
(* State                                                               *)
(* ------------------------------------------------------------------ *)
VARIABLES
    now,    \* the clock, in seconds: Math.floor(Date.now() / 1000)
    kv,     \* the RATE_LIMIT namespace
    kb,     \* knowledgeBase, loaded once at startup
    env,    \* the worker's bindings
    pc,     \* per handler invocation: where it stands
    req,    \* per invocation: the request it serves
    loc,    \* per invocation: its local values
    fetch,  \* per invocation: the call to the provider
    resp,   \* per invocation: the Response it returned
    obs,    \* per invocation: what it has done so far (history)
    hist,   \* per key: the requests counted in the current window (history)
    served, \* the requests received so far (history)
    rank,   \* the ranker called on its own: its arguments and what it returned
    gen     \* the generation module called on its own: arguments and results

vars == <<now, kv, kb, env, pc, req, loc, fetch, resp, obs, hist, served, rank, gen>>

Terminal == {"Responded", "ErrorResponded"}

NoRequest == Request(Unparseable, Headers(Undefined, Undefined))

LocInit ==
    [origin |-> Undefined, message |-> <<>>, sessionId |-> <<>>, ipAddress |-> <<>>, t |-> 0,
     sessionData |-> Null, ipData |-> Null, entries |-> <<>>, provider |-> <<>>]

ObsInit ==
    [trace |-> <<>>, gets |-> 0, puts |-> {}, retrievals |-> 0, dispatched |-> 0,
     sent |-> 0, rateLimitResult |-> Allowed, checked |-> 0,
     generation |-> "none", threw |-> "none", idxSession |-> 0, idxIp |-> 0, previous |-> Allowed]

NoFetch ==
    [state |-> "none", provider |-> <<>>, url |-> "",
     headers |-> [contentType |-> "", xApiKey |-> NoHeader,
                  anthropicVersion |-> NoHeader, authorization |-> NoHeader]]

\* the generation module has not been called on its own
NotGenerating ==
    [messages |-> <<>>, model |-> "", temperature |-> 0, maxTokens |-> 0,
     provider |-> OpenAI, called |-> "none",
     openai |-> buildPayloadOpenAI(<<>>, "", 0, 0),
     anthropic |-> buildPayloadAnthropic(<<>>, "", 0, 0),
     data |-> Data(NoList, NoList), exchange |-> NoExchange,
     result |-> GenReturned(<<>>)]

\* the ranker has not been called on its own
NotCalled ==
    [question |-> <<>>, topN |-> TOP_N, retrieved |-> FALSE, result |-> <<>>,
     scored |-> FALSE, keywords |-> <<>>, scores |-> <<>>,
     formatted |-> FALSE, context |-> Returned(<<>>)]

(* ------------------------------------------------------------------ *)
(* History of the windows                                              *)
(* ------------------------------------------------------------------ *)
\* A window of a key opens with the first request that finds none open and
\* spans `len` seconds from that request's clock reading.  n counts the
\* requests that fell into it, passed those the window let through.
HistLive(h, key, t, len) ==
    key \in DOMAIN h /\ h[key].start <= t /\ t < h[key].start + len

HistCount(h, key, t, len, limit, passes) ==
    IF key \in DOMAIN h /\ t < h[key].start THEN h
    ELSE LET old == IF HistLive(h, key, t, len) THEN h[key]
                    ELSE [start |-> t, n |-> 0, passed |-> 0, lost |-> FALSE]
             new == [start  |-> old.start,
                     lost   |-> old.lost,
                     n      |-> Min(old.n + 1, limit + GhostSlack),
                     passed |-> Min(old.passed + (IF passes THEN 1 ELSE 0),
                                    limit + GhostSlack)]
         IN  [k \in DOMAIN h \cup {key} |-> IF k = key THEN new ELSE h[k]]

\* a put that overwrites a value other than the one its request had read
HistLost(h, key, t, len, read, stored) ==
    IF HistLive(h, key, t, len) /\ read # stored
    THEN [h EXCEPT ![key].lost = TRUE] ELSE h

HistIndex(h, key, t, len) == IF HistLive(h, key, t, len) THEN h[key].n ELSE 0

WindowOf(key) == IF key[1] = "session" THEN HOUR_IN_SECONDS ELSE DAY_IN_SECONDS

HistPurge(h, clock) ==
    [k \in {x \in DOMAIN h : clock < h[x].start + WindowOf(x)} |-> h[k]]

(* ------------------------------------------------------------------ *)
(* Actions                                                             *)
(* ------------------------------------------------------------------ *)
Set(r, newPc, newLoc, newFetch, newResp, newObs) ==
    /\ pc' = [pc EXCEPT ![r] = newPc]
    /\ loc' = [loc EXCEPT ![r] = newLoc]
    /\ fetch' = [fetch EXCEPT ![r] = newFetch]
    /\ resp' = [resp EXCEPT ![r] = newResp]
    /\ obs' = [obs EXCEPT ![r] = newObs]

TerminalOf(response) ==
    IF response.status \in {200, 204} THEN "Responded" ELSE "ErrorResponded"

\* return new Response(...)
Return(r, newLoc, response, o) ==
    Set(r, TerminalOf(response),
        [newLoc EXCEPT !.sessionData = Null, !.ipData = Null],
        NoFetch, [response EXCEPT !.allowOrigin = getCorsHeaders(newLoc.origin)],
        [o EXCEPT !.sent = @ + 1, !.trace = Append(@, TerminalOf(response))])

\* index.js line 744
ProviderOf(e) == toLowerCase(OrElse(e.AI_PROVIDER, OpenAI))

\* The handler handing the OpenAI key to whatever provider is configured.
ApiKeyOf_AlwaysOpenAI(e, provider) == e.OPENAI_API_KEY

\* index.js line 745
ApiKeyOf(e, provider) ==
    IF provider = Anthropic THEN e.ANTHROPIC_API_KEY ELSE e.OPENAI_API_KEY

\* The handler without the try/catch of lines 747-755 around the reply.
AiResponse_Unchecked(outcome, content) == AiMessage(extractResponse(content))

\* index.js lines 752-755: what the handler answers with once the call to
\* generateResponse has settled
AiResponse(outcome, content) ==
    IF GenerationFails(outcome) THEN FallbackMessage
    ELSE AiMessage(extractResponse(content))

\* The test of line 727 with the wrong comparison.
NoMatch_Negative(retrievedEntries) == Len(retrievedEntries) < 0

\* rag-retrieval.js line 105: entry.tags.join of an entry without tags
FormatThrows(retrievedEntries) ==
    \E i \in 1..Len(retrievedEntries) : retrievedEntries[i].tags = Undefined

\* index.js line 727
NoMatch(retrievedEntries) == Len(retrievedEntries) = 0

\* index.js lines 707-757, from the return of checkRateLimit up to the
\* next await
AfterRateLimit(r, rateLimitResult, o) ==
    LET o1 == [o EXCEPT !.rateLimitResult = rateLimitResult, !.checked = @ + 1]
    IN  IF ~rateLimitResult.allowed
        THEN Return(r, loc[r], Response429(rateLimitResult), o1)
        ELSE LET retrievedEntries == Retrieved[kb][loc[r].message]
                 ids == [i \in 1..Len(retrievedEntries) |-> retrievedEntries[i].id]
                 l2 == [loc[r] EXCEPT !.entries = ids, !.provider = ProviderOf(env)]
                 o2 == [o1 EXCEPT !.retrievals = @ + 1,
                                  !.trace = Append(@, "RateChecked")]
                 o3 == [o2 EXCEPT !.trace = Append(@, "Retrieved")]
             IN  IF NoMatch(retrievedEntries)
                 THEN Return(r, l2, ResponseNoMatch, o2)
                 ELSE IF FormatThrows(retrievedEntries)
                 THEN Return(r, l2, Response500, [o3 EXCEPT !.threw = "formatter"])
                 ELSE IF ~KnownProvider(l2.provider)
                 THEN Return(r, l2, ResponseChat(FallbackMessage, Len(ids)),
                             [o3 EXCEPT !.trace = Append(@, "Generated"),
                                        !.generation = "unknown provider"])
                 ELSE Set(r, "Fetching", [l2 EXCEPT !.sessionData = Null, !.ipData = Null],
                          FetchCall(l2.provider, ApiKeyOf(env, l2.provider)),
                          NoResponse, [o3 EXCEPT !.dispatched = @ + 1])

\* POST /chat arrives and its body is read: index.js lines 688-705 and
\* rate-limiter.js lines 25-30, up to the first kv.get
ReceiveChat(r, q) ==
    /\ pc[r] \in {"Idle"} \cup Terminal
    /\ req' = [req EXCEPT ![r] = q]
    /\ LET body == q.body
           message == MessageOf(body)
           l0 == [LocInit EXCEPT !.origin = q.headers.origin]
           o0 == [ObsInit EXCEPT !.trace = <<"Received">>,
                                 !.previous = obs[r].rateLimitResult]
       IN  IF ~body.parseable \/ DestructureThrows(body)
           THEN Return(r, l0, Response500,
                       [o0 EXCEPT !.threw = IF body.parseable THEN "null" ELSE "json"])
           ELSE IF InvalidMessage(message)
           THEN Return(r, l0, Response400, o0)
           ELSE Set(r, "SessionGet",
                    [l0 EXCEPT !.message = message.s,
                                    !.sessionId = SessionIdOf[q.headers],
                                    !.ipAddress = ClientIpOf[q.headers],
                                    !.t = now],
                    NoFetch, NoResponse,
                    [o0 EXCEPT !.trace = Append(@, "Validated")])
    /\ UNCHANGED <<now, kv, kb, env, gen, rank, hist>>

\* The router going by the path alone.
RouteOf_ByPath(q) ==
    IF q.path = "/health" THEN "health"
    ELSE IF q.path = "/chat" THEN "chat"
    ELSE "notfound"

\* index.js lines 795-818: the branch the router takes
RouteOf(q) ==
    IF q.method = "OPTIONS" THEN "preflight"
    ELSE IF q.method = "GET" /\ q.path = "/health" THEN "health"
    ELSE IF q.method = "POST" /\ q.path = "/chat" THEN "chat"
    ELSE "notfound"

\* index.js lines 790-819: the router
HandleRequest(r, q) ==
    IF RouteOf(q) = "chat"
    THEN ReceiveChat(r, q)
    ELSE /\ pc[r] \in {"Idle"} \cup Terminal
         /\ req' = [req EXCEPT ![r] = q]
         /\ Return(r, [LocInit EXCEPT !.origin = q.headers.origin],
                   CASE RouteOf(q) = "preflight" -> Response204
                     [] RouteOf(q) = "health" -> ResponseHealth
                     [] OTHER -> Response404,
                   [ObsInit EXCEPT !.previous = obs[r].rateLimitResult])
         /\ UNCHANGED <<now, kv, kb, env, gen, rank, hist>>

\* a request reaches the worker while the behaviour may still serve one
ArrivesAtRouter(r, q, budget) ==
    /\ served < budget
    /\ served' = served + 1
    /\ HandleRequest(r, q)

\* a request arrives while the behaviour may still serve one
Arrives(r, q, budget) ==
    /\ served < budget
    /\ served' = served + 1
    /\ ReceiveChat(r, q)

\* The session check counting the request before it denies it.
SessionGet_CountsDenied(r) ==
    /\ pc[r] = "SessionGet"
    /\ LET key == sessionKey(loc[r].sessionId)
           t == loc[r].t
           sessionData == KvGet(kv, key, now)
           denied == SessionDenies(sessionData, t)
           h2 == HistCount(hist, key, t, HOUR_IN_SECONDS, VISITOR_LIMIT, ~denied)
           o1 == [obs[r] EXCEPT !.gets = @ + 1,
                                !.idxSession = HistIndex(h2, key, t, HOUR_IN_SECONDS)]
       IN  /\ hist' = h2
           /\ IF denied
              THEN /\ kv' = KvPut(kv, key, SessionWrite(sessionData, t),
                                  HOUR_IN_SECONDS, now)
                   /\ AfterRateLimit(r, Denied(SessionReason, sessionData.resetAt - t),
                                     [o1 EXCEPT !.puts = @ \cup {key}])
              ELSE /\ kv' = kv
                   /\ Set(r, "SessionPut", [loc[r] EXCEPT !.sessionData = sessionData],
                          NoFetch, NoResponse, o1)
    /\ UNCHANGED <<now, kb, env, gen, rank, req, served>>

\* rate-limiter.js lines 30-39: kv.get(sessionKey) resolves
SessionGet(r) ==
    /\ pc[r] = "SessionGet"
    /\ LET key == sessionKey(loc[r].sessionId)
           t == loc[r].t
           sessionData == KvGet(kv, key, now)
           denied == SessionDenies(sessionData, t)
           h2 == HistCount(hist, key, t, HOUR_IN_SECONDS, VISITOR_LIMIT, ~denied)
           o1 == [obs[r] EXCEPT !.gets = @ + 1,
                                !.idxSession = HistIndex(h2, key, t, HOUR_IN_SECONDS)]
       IN  /\ hist' = h2
           /\ IF denied
              THEN AfterRateLimit(r, Denied(SessionReason, sessionData.resetAt - t), o1)
              ELSE Set(r, "SessionPut", [loc[r] EXCEPT !.sessionData = sessionData],
                       NoFetch, NoResponse, o1)
    /\ UNCHANGED <<now, kv, kb, env, gen, rank, req, served>>

\* rate-limiter.js lines 41-52: kv.put(sessionKey) resolves
SessionPut(r) ==
    /\ pc[r] = "SessionPut"
    /\ LET key == sessionKey(loc[r].sessionId)
       IN  /\ kv' = KvPut(kv, key, SessionWrite(loc[r].sessionData, loc[r].t),
                          HOUR_IN_SECONDS, now)
           /\ hist' = HistLost(hist, key, loc[r].t, HOUR_IN_SECONDS,
                               loc[r].sessionData, KvGet(kv, key, now))
           /\ Set(r, "IpGet", [loc[r] EXCEPT !.sessionData = Null], NoFetch, NoResponse,
                  [obs[r] EXCEPT !.puts = @ \cup {key}])
    /\ UNCHANGED <<now, kb, env, gen, rank, req, served>>

\* The address check counting the request before it denies it.
IpGet_CountsDenied(r) ==
    /\ pc[r] = "IpGet"
    /\ LET key == ipKey(loc[r].ipAddress)
           t == loc[r].t
           ipData == KvGet(kv, key, now)
           denied == IpDenies(ipData, t)
           h2 == HistCount(hist, key, t, DAY_IN_SECONDS, IP_LIMIT, ~denied)
           o1 == [obs[r] EXCEPT !.gets = @ + 1,
                                !.idxIp = HistIndex(h2, key, t, DAY_IN_SECONDS)]
       IN  /\ hist' = h2
           /\ IF denied
              THEN /\ kv' = KvPut(kv, key, IpWrite(ipData, t), DAY_IN_SECONDS, now)
                   /\ AfterRateLimit(r, Denied(IpReason, ipData.resetAt - t),
                                     [o1 EXCEPT !.puts = @ \cup {key}])
              ELSE /\ kv' = kv
                   /\ Set(r, "IpPut", [loc[r] EXCEPT !.ipData = ipData],
                          NoFetch, NoResponse, o1)
    /\ UNCHANGED <<now, kb, env, gen, rank, req, served>>

\* rate-limiter.js lines 52-61: kv.get(ipKey) resolves
IpGet(r) ==
    /\ pc[r] = "IpGet"
    /\ LET key == ipKey(loc[r].ipAddress)
           t == loc[r].t
           ipData == KvGet(kv, key, now)
           denied == IpDenies(ipData, t)
           h2 == HistCount(hist, key, t, DAY_IN_SECONDS, IP_LIMIT, ~denied)
           o1 == [obs[r] EXCEPT !.gets = @ + 1,
                                !.idxIp = HistIndex(h2, key, t, DAY_IN_SECONDS)]
       IN  /\ hist' = h2
           /\ IF denied
              THEN AfterRateLimit(r, Denied(IpReason, ipData.resetAt - t), o1)
              ELSE Set(r, "IpPut", [loc[r] EXCEPT !.ipData = ipData],
                       NoFetch, NoResponse, o1)
    /\ UNCHANGED <<now, kv, kb, env, gen, rank, req, served>>

\* rate-limiter.js lines 63-72 and the handler's continuation: kv.put(ipKey)
\* resolves, checkRateLimit returns allowed
IpPut(r) ==
    /\ pc[r] = "IpPut"
    /\ LET key == ipKey(loc[r].ipAddress)
       IN  /\ kv' = KvPut(kv, key, IpWrite(loc[r].ipData, loc[r].t),
                          DAY_IN_SECONDS, now)
           /\ hist' = HistLost(hist, key, loc[r].t, DAY_IN_SECONDS,
                               loc[r].ipData, KvGet(kv, key, now))
           /\ AfterRateLimit(r, Allowed, [obs[r] EXCEPT !.puts = @ \cup {key}])
    /\ kb' = CorpusAfterRetrieve(loc[r].message, kb, TOP_N)
    /\ UNCHANGED <<now, env, gen, rank, req, served>>

\* rate-limiter.js lines 30, 42-47, 52, 64-69: the kv.get or kv.put the
\* invocation waits for rejects; index.js lines 774-783 answer
StoreFails(r) ==
    /\ pc[r] \in {"SessionGet", "SessionPut", "IpGet", "IpPut"}
    /\ Return(r, loc[r], Response500, [obs[r] EXCEPT !.threw = "store"])
    /\ UNCHANGED <<now, kv, kb, env, gen, rank, req, hist, served>>

\* The call to the provider tried a second time after a first failure.
FetchSettles_TriesAgain(r, outcome, content) ==
    /\ pc[r] = "Fetching"
    /\ fetch[r].state = "pending"
    /\ outcome = "text" \/ content = <<>>
    /\ IF GenerationFails(outcome) /\ obs[r].dispatched < 2
       THEN Set(r, "Fetching", loc[r], fetch[r], NoResponse,
                [obs[r] EXCEPT !.dispatched = @ + 1])
       ELSE Return(r, loc[r],
                   ResponseChat(AiResponse(outcome, content), Len(loc[r].entries)),
                   [obs[r] EXCEPT !.trace = Append(@, "Generated"),
                                  !.generation = outcome])
    /\ UNCHANGED <<now, kv, kb, env, gen, rank, req, hist, served>>

\* ai-integration.js lines 153-166 and index.js lines 752-772: the call to
\* the provider settles
FetchSettles(r, outcome, content) ==
    /\ pc[r] = "Fetching"
    /\ fetch[r].state = "pending"
    /\ outcome = "text" \/ content = <<>>
    /\ Return(r, loc[r], ResponseChat(AiResponse(outcome, content), Len(loc[r].entries)),
              [obs[r] EXCEPT !.trace = Append(@, "Generated"),
                             !.generation = outcome])
    /\ UNCHANGED <<now, kv, kb, env, gen, rank, req, hist, served>>

\* the provider accepts the call and never answers it
ProviderNeverAnswers(r) ==
    /\ pc[r] = "Fetching"
    /\ fetch[r].state = "pending"
    /\ fetch' = [fetch EXCEPT ![r].state = "never"]
    /\ UNCHANGED <<now, kv, kb, env, gen, rank, pc, req, loc, resp, obs, hist, served>>

\* time passes; the store drops what has expired
Tick(step, ticks) ==
    /\ now < step * ticks
    /\ now' = now + step
    /\ kv' = KvPurge(kv, now')
    /\ hist' = HistPurge(hist, now')
    /\ UNCHANGED <<kb, env, gen, rank, pc, req, loc, fetch, resp, obs, served>>

AllQuiet == \A r \in DOMAIN pc : pc[r] \in {"Idle"} \cup Terminal

(* ------------------------------------------------------------------ *)
(* Specifications                                                      *)
(* ------------------------------------------------------------------ *)
EmptyStore == <<>>

Stored(count, resetAt) ==
    [value |-> [count |-> count, resetAt |-> resetAt], exp |-> resetAt]

Counted(start, n) == [start |-> start, n |-> n, passed |-> n, lost |-> FALSE]

\* The store as earlier traffic left it at time 0: nothing, or the session
\* one short of its limit after nine requests and the address one short of
\* its limit after ninety more from other sessions.
Seeds ==
    { [kv |-> EmptyStore, hist |-> EmptyStore],
      [kv |-> (sessionKey(Sid1) :> Stored(VISITOR_LIMIT - 1, HOUR_IN_SECONDS))
              @@ (ipKey(Ip1) :> Stored(IP_LIMIT - 1, DAY_IN_SECONDS)),
       hist |-> (sessionKey(Sid1) :> Counted(0, VISITOR_LIMIT - 1))
              @@ (ipKey(Ip1) :> Counted(0, IP_LIMIT - 1))] }

Configs ==
    { [kb |-> <<EntryQa, EntryFact>>, env |-> Env(Undefined)],
      [kb |-> <<EntryFact, EntryAbout, EntryQa>>,
       env |-> Env(<<"A","n","t","h","r","o","p","i","c">>)],
      [kb |-> <<EntryFact, EntryAbout, EntryQa>>,
       env |-> Env(<<"g","e","m","i","n","i">>)],
      [kb |-> <<EntryBare>>, env |-> Env(Undefined)],
      [kb |-> <<EntryAbout, EntryBare>>, env |-> Env(<<"g","e","m","i","n","i">>)] }

InitSlots(slots) ==
    /\ pc = [r \in slots |-> "Idle"]
    /\ req = [r \in slots |-> NoRequest]
    /\ loc = [r \in slots |-> LocInit]
    /\ fetch = [r \in slots |-> NoFetch]
    /\ resp = [r \in slots |-> NoResponse]
    /\ obs = [r \in slots |-> ObsInit]
    /\ served = 0

\* One invocation at a time, every kind of request, every outcome of the
\* provider, the store as earlier traffic left it.
Init ==
    /\ rank = NotCalled
    /\ gen = NotGenerating
    /\ now = 0
    /\ \E seed \in Seeds : kv = seed.kv /\ hist = seed.hist
    /\ \E c \in Configs : kb = c.kb /\ env = c.env
    /\ InitSlots({1})

Next ==
    \/ \E q \in AllRequests : Arrives(1, q, MaxRequests)
    \/ SessionGet(1)
    \/ SessionPut(1)
    \/ IpGet(1)
    \/ IpPut(1)
    \/ \E o \in FetchOutcomes, c \in ProviderTexts : FetchSettles(1, o, c)
    \/ ProviderNeverAnswers(1)
    \/ Tick(ClockStep, MaxTicks)

Spec == Init /\ [][Next]_vars

\* One invocation at a time with a store whose reads and writes may fail.
NextFail ==
    \/ \E q \in AllRequests : Arrives(1, q, MaxFailRequests)
    \/ SessionGet(1)
    \/ SessionPut(1)
    \/ IpGet(1)
    \/ IpPut(1)
    \/ StoreFails(1)
    \/ \E o \in FetchOutcomes, c \in ProviderTexts : FetchSettles(1, o, c)
    \/ ProviderNeverAnswers(1)

SpecFail == Init /\ [][NextFail]_vars

\* The worker behind its router, one invocation at a time.
InitRoute ==
    /\ rank = NotCalled
    /\ gen = NotGenerating
    /\ now = 0
    /\ \E seed \in Seeds : kv = seed.kv /\ hist = seed.hist
    /\ kb = <<EntryQa, EntryFact>>
    /\ env = Env(Undefined)
    /\ InitSlots({1})

NextRoute ==
    \/ \E q \in RouteRequests : ArrivesAtRouter(1, q, MaxRouteRequests)
    \/ SessionGet(1)
    \/ SessionPut(1)
    \/ IpGet(1)
    \/ IpPut(1)
    \/ \E o \in FetchOutcomes, c \in ProviderTexts : FetchSettles(1, o, c)

SpecRoute == InitRoute /\ [][NextRoute]_vars

\* One client, one request after another, from an empty store; the clock
\* moves between requests.
InitSeq ==
    /\ rank = NotCalled
    /\ gen = NotGenerating
    /\ now = 0
    /\ kv = EmptyStore
    /\ hist = EmptyStore
    /\ kb = <<EntryQa, EntryFact>>
    /\ env = Env(Undefined)
    /\ InitSlots({1})

NextSeq ==
    \/ \E q \in PlainRequests : ReceiveChat(1, q) /\ UNCHANGED served
    \/ SessionGet(1)
    \/ SessionPut(1)
    \/ IpGet(1)
    \/ IpPut(1)
    \/ AllQuiet /\ kv # EmptyStore /\ Tick(ClockStepSeq, MaxTicksSeq)

SpecSeq == InitSeq /\ [][NextSeq]_vars

\* One client at one address, one request after another inside one window,
\* from an empty store: it sends no session identifier, or one it has not
\* sent before.
FreshSent == Cardinality({ i \in 1..(IP_LIMIT + MaxOver) : sessionKey(FreshId(i)) \in DOMAIN hist })

SendsNoSessionId(headers) ==
    /\ ReceiveChat(1, Request(Body("object", JString(M_none)), headers))
    /\ UNCHANGED served

SendsFreshSessionId ==
    /\ FreshSent < IP_LIMIT + MaxOver
    /\ ReceiveChat(1, Request(Body("object", JString(M_none)),
                              Headers(FreshId(FreshSent + 1), Ip1)))
    /\ UNCHANGED served

NextClient ==
    \/ \E h \in AnonHeaderSets : SendsNoSessionId(h)
    \/ SendsFreshSessionId
    \/ SessionGet(1)
    \/ SessionPut(1)
    \/ IpGet(1)
    \/ IpPut(1)

SpecClient == InitSeq /\ [][NextClient]_vars

\* One request whose first kv.get may take long, while the requests of the
\* same client that arrive after it are served one after another; from an
\* empty store, with the clock moving. Once its get has resolved, the
\* waiting request runs on between two of the later ones.
Turn(r) ==
    IF r = 1 THEN pc[2] \in {"Idle"} \cup Terminal
    ELSE pc[1] \in {"SessionGet"} \cup Terminal

StalledArrives(q) ==
    /\ pc[1] = "Idle"
    /\ ReceiveChat(1, q)
    /\ UNCHANGED served

LaterArrives(q) ==
    /\ Turn(2)
    /\ ReceiveChat(2, q)
    /\ UNCHANGED served

InitStall ==
    /\ rank = NotCalled
    /\ gen = NotGenerating
    /\ now = 0
    /\ kv = EmptyStore
    /\ hist = EmptyStore
    /\ kb = <<EntryQa, EntryFact>>
    /\ env = Env(Undefined)
    /\ InitSlots({1, 2})

NextStall ==
    \/ \E q \in PlainRequests : StalledArrives(q)
    \/ \E q \in PlainRequests : LaterArrives(q)
    \/ \E r \in {1, 2} : Turn(r) /\ SessionGet(r)
    \/ \E r \in {1, 2} : Turn(r) /\ SessionPut(r)
    \/ \E r \in {1, 2} : Turn(r) /\ IpGet(r)
    \/ \E r \in {1, 2} : Turn(r) /\ IpPut(r)
    \/ Tick(ClockStep, MaxTicks)

SpecStall == InitStall /\ [][NextStall]_vars

\* Invocations of the handler that overlap, for the requests of one client:
\* every request has an invocation of its own, and they start in order.
Slots == 1..MaxRaceRequests

Started(r) == IF r = 1 THEN TRUE ELSE pc[r - 1] # "Idle"

InitRace ==
    /\ rank = NotCalled
    /\ gen = NotGenerating
    /\ now = 0
    /\ \E seed \in Seeds : kv = seed.kv /\ hist = seed.hist
    /\ kb = <<EntryQa, EntryFact>>
    /\ env = Env(Undefined)
    /\ InitSlots(Slots)

NextRace ==
    \/ \E r \in Slots, q \in PlainRequests :
          pc[r] = "Idle" /\ Started(r) /\ Arrives(r, q, MaxRaceRequests)
    \/ \E r \in Slots : SessionGet(r)
    \/ \E r \in Slots : SessionPut(r)
    \/ \E r \in Slots : IpGet(r)
    \/ \E r \in Slots : IpPut(r)
    \/ Tick(ClockStep, MaxTicks)

SpecRace == InitRace /\ [][NextRace]_vars

(* ------------------------------------------------------------------ *)
(* The ranker on its own (rag-retrieval.js)                            *)
(* ------------------------------------------------------------------ *)
\* retrieveEntries(question, knowledgeBase, topN)
CallRetrieveEntries ==
    /\ ~rank.retrieved
    /\ rank' = [rank EXCEPT !.retrieved = TRUE,
                            !.result = retrieveEntries(rank.question, kb, rank.topN)]
    /\ kb' = CorpusAfterRetrieve(rank.question, kb, rank.topN)
    /\ UNCHANGED <<now, kv, env, gen, pc, req, loc, fetch, resp, obs, hist, served>>

\* scoreEntry(entry, keywords) for every entry of the knowledge base, with
\* the keywords of the question
CallScoreEntry ==
    /\ ~rank.scored
    /\ LET keywords == extractKeywords(rank.question)
       IN  rank' = [rank EXCEPT !.scored = TRUE,
                                !.keywords = keywords,
                                !.scores = [i \in 1..Len(kb) |->
                                               scoreEntry(kb[i], keywords)]]
    /\ UNCHANGED <<now, kv, kb, env, gen, pc, req, loc, fetch, resp, obs, hist, served>>

\* formatEntriesForContext(retrievedEntries) on what the ranker returned
CallFormatEntries ==
    /\ rank.retrieved /\ ~rank.formatted
    /\ rank' = [rank EXCEPT !.formatted = TRUE,
                            !.context = formatEntriesForContext(rank.result)]
    /\ UNCHANGED <<now, kv, kb, env, gen, pc, req, loc, fetch, resp, obs, hist, served>>

\* a visitor sends the question to POST /chat
AsksTheQuestion ==
    Arrives(1, Request(Body("object", JString(rank.question)), Headers(Sid1, Ip1)),
            MaxRankRequests)

\* A question, a knowledge base and a topN are drawn; the ranker is called
\* with them directly, and the worker is asked the question.
InitRank ==
    /\ now = 0
    /\ kv = EmptyStore
    /\ hist = EmptyStore
    /\ kb \in RankCorpora
    /\ env = Env(Undefined)
    /\ InitSlots({1})
    /\ gen = NotGenerating
    /\ rank \in { [NotCalled EXCEPT !.question = q, !.topN = n] :
                      q \in RankQuestions, n \in 0..MaxTopN }

NextRank ==
    \/ CallRetrieveEntries
    \/ CallScoreEntry
    \/ CallFormatEntries
    \/ AsksTheQuestion
    \/ SessionGet(1)
    \/ SessionPut(1)
    \/ IpGet(1)
    \/ IpPut(1)
    \/ \E o \in FetchOutcomes, c \in ProviderTexts : FetchSettles(1, o, c)

SpecRank == InitRank /\ [][NextRank]_vars

(* ------------------------------------------------------------------ *)
(* The generation module on its own (ai-integration.js)                *)
(* ------------------------------------------------------------------ *)
\* both payload builders on the same arguments
CallBuildPayload ==
    /\ gen.called = "none"
    /\ gen' = [gen EXCEPT
                 !.called = "buildPayload",
                 !.openai = buildPayloadOpenAI(gen.messages, gen.model,
                                               gen.temperature, gen.maxTokens),
                 !.anthropic = buildPayloadAnthropic(gen.messages, gen.model,
                                                     gen.temperature, gen.maxTokens)]
    /\ UNCHANGED <<now, kv, kb, env, rank, pc, req, loc, fetch, resp, obs, hist, served>>

\* PROVIDERS[provider].extractResponse(data)
CallExtractResponse(data) ==
    /\ gen.called = "none"
    /\ KnownProvider(gen.provider)
    /\ gen' = [gen EXCEPT !.called = "extractResponse",
                          !.data = data,
                          !.result = extractResponseFrom(gen.provider, data)]
    /\ UNCHANGED <<now, kv, kb, env, rank, pc, req, loc, fetch, resp, obs, hist, served>>

\* generateResponse up to its await of fetch (lines 112-157)
CallGenerateResponse ==
    /\ gen.called = "none"
    /\ gen' = IF KnownProvider(gen.provider)
              THEN [gen EXCEPT !.called = "fetching", !.exchange = NoExchange,
                               !.result = GenReturned(<<>>)]
              ELSE [gen EXCEPT !.called = "generateResponse",
                               !.exchange = NoExchange,
                               !.result = UnknownProviderError(gen.provider)]
    /\ UNCHANGED <<now, kv, kb, env, rank, pc, req, loc, fetch, resp, obs, hist, served>>

\* fetch settles and generateResponse runs to its end (lines 159-165)
FetchReturns(exchange) ==
    /\ gen.called = "fetching"
    /\ gen' = [gen EXCEPT !.called = "generateResponse",
                          !.exchange = exchange,
                          !.data = exchange.data,
                          !.result = AfterFetch(gen.provider, exchange)]
    /\ UNCHANGED <<now, kv, kb, env, rank, pc, req, loc, fetch, resp, obs, hist, served>>

\* A message list, the arguments and a provider are drawn; one of the
\* functions of the module is called with them.
InitGen ==
    /\ now = 0
    /\ kv = EmptyStore
    /\ hist = EmptyStore
    /\ kb = <<>>
    /\ env = Env(Undefined)
    /\ InitSlots({1})
    /\ rank = NotCalled
    /\ gen \in { [NotGenerating EXCEPT !.messages = ms, !.model = a.model,
                                       !.temperature = a.temperature,
                                       !.maxTokens = a.maxTokens, !.provider = p] :
                     ms \in MessageLists, a \in ArgSets,
                     p \in {OpenAI, Anthropic, Gemini} }

NextGen ==
    \/ CallBuildPayload
    \/ \E d \in Datas : CallExtractResponse(d)
    \/ CallGenerateResponse
    \/ \E x \in Exchanges : FetchReturns(x)

SpecGen == InitGen /\ [][NextGen]_vars

(* ------------------------------------------------------------------ *)
(* Properties                                                          *)
(* ------------------------------------------------------------------ *)
Answered(r) == pc[r] \in Terminal

\* The request of invocation r went through the limiter.
Checked(r) == Answered(r) /\ obs[r].checked = 1

\* C1: with requests served one after another, a request that is at most
\* the 10th of its session window and at most the 100th of its address
\* window is allowed; the 11th and later of a session window are denied
\* with a positive retryAfter and the reason that names the session limit
\* 10; with the session under its limit, the 101st and later of an address
\* window are denied with a positive retryAfter and the reason that names
\* the address limit 100; every denial is answered with status 429.
C1_LimitsInARow ==
    \A r \in DOMAIN pc :
        Checked(r) =>
            LET i == obs[r].idxSession
                j == obs[r].idxIp
                res == obs[r].rateLimitResult
            IN  /\ i >= 1
                /\ (i <= 10 /\ j >= 1 /\ j <= 100) =>
                       res.allowed /\ resp[r].status = 200
                /\ i > 10 =>
                       /\ ~res.allowed
                       /\ res.retryAfter > 0
                       /\ res.reason = <<"Rate limit exceeded. You can send ", 10,
                                         " messages per hour.">>
                       /\ resp[r].status = 429
                /\ (i <= 10 /\ j > 100) =>
                       /\ ~res.allowed
                       /\ res.retryAfter > 0
                       /\ res.reason = <<"IP rate limit exceeded. Maximum ", 100,
                                         " messages per day.">>
                       /\ resp[r].status = 429
                /\ i <= 10 => j >= 1

\* The 11th request of a session window is answered 429 on an address whose
\* window has already had its 101st request.
C1_EleventhDenied ==
    /\ Checked(1)
    /\ obs[1].idxSession = 11
    /\ resp[1].status = 429
    /\ ipKey(Ip1) \in DOMAIN hist
    /\ hist[ipKey(Ip1)].n > 100

LimitOf(key) == IF key[1] = "session" THEN VISITOR_LIMIT ELSE IP_LIMIT

\* C2: the limiter's get and put are not atomic, so requests that overlap
\* can both read the same count, both be allowed and both write count + 1;
\* more requests than the limit then pass within one window. Stated as what
\* the overrun depends on: once every invocation has returned, a window has
\* let through more requests than its limit only if some put in that window
\* overwrote a value other than the one its request had read.
C2_OverrunOnlyByLostUpdate ==
    AllQuiet =>
        \A key \in DOMAIN hist :
            hist[key].passed > LimitOf(key) => hist[key].lost

\* Two overlapping requests have both been answered 200 on a session with
\* nine requests and an address with ninety-nine: eleven have passed the
\* session window and a hundred and one the address window, and the stored
\* counts are 10 and 100.
C2_BothAdmittedOverLimit ==
    /\ \A r \in Slots : r \in DOMAIN pc /\ pc[r] = "Responded"
    /\ sessionKey(Sid1) \in DOMAIN hist /\ ipKey(Ip1) \in DOMAIN hist
    /\ sessionKey(Sid1) \in DOMAIN kv /\ ipKey(Ip1) \in DOMAIN kv
    /\ hist[sessionKey(Sid1)].passed = VISITOR_LIMIT + 1
    /\ hist[ipKey(Ip1)].passed = IP_LIMIT + 1
    /\ kv[sessionKey(Sid1)].value.count = VISITOR_LIMIT
    /\ kv[ipKey(Ip1)].value.count = IP_LIMIT
    /\ hist[sessionKey(Sid1)].lost /\ hist[ipKey(Ip1)].lost

\* The message of a request is a text with something other than blanks.
WellFormed(q) ==
    /\ q.body.parseable
    /\ q.body.t = "object"
    /\ q.body.message.t = "string"
    /\ \E i \in 1..Len(q.body.message.s) : q.body.message.s[i] \notin SpaceChars

\* What the ranker returns for the message of invocation r.
EntriesFor(r) == Retrieved[kb][req[r].body.message.s]

\* C3: for a valid, admitted request with at least one retrieved entry, a
\* generation call that fails in any way (the transport rejects, a non-2xx
\* status, a body that is not JSON, a reply without text, a provider name
\* that is not supported) is answered with status 200, the fixed fallback
\* message, the suggestions and the number of entries found; never a 5xx.
C3_FailedGenerationFallsBack ==
    \A r \in DOMAIN pc :
        (Answered(r) /\ obs[r].generation \notin {"none", "text"}) =>
            /\ WellFormed(req[r])
            /\ obs[r].rateLimitResult.allowed
            /\ Len(EntriesFor(r)) >= 1
            /\ resp[r].status = 200
            /\ resp[r].message = FallbackMessage
            /\ resp[r].suggestions
            /\ resp[r].entriesFound = Len(EntriesFor(r))

\* The provider answered with a status that is not 2xx and the request was
\* answered 200 with the fallback message.
C3_ProviderErrorFellBack ==
    /\ Answered(1)
    /\ obs[1].generation = "status"
    /\ resp[1].status = 200
    /\ resp[1].message = FallbackMessage

\* The provider's answer, of whatever kind, ends the call of invocation r.
CallEnds(r) == \E o \in FetchOutcomes, c \in ProviderTexts : FetchSettles(r, o, c)

\* C4: every generation call that has been dispatched is bounded, so that
\* the request it belongs to always gets its response: wherever a call is
\* in flight, a step that ends it is possible.
C4_DispatchedCallCanEnd ==
    \A r \in DOMAIN pc : pc[r] = "Fetching" => ENABLED CallEnds(r)

Stages == <<"Received", "Validated", "RateChecked", "Retrieved", "Generated">>

\* C5: a chat request goes through Received, Validated, RateChecked,
\* Retrieved, Generated in this order and produces exactly one response:
\* the limiter is consulted only for a request that passed validation,
\* retrieval runs only once the limiter has allowed the request, and
\* generation is attempted only with at least one retrieved entry.
C5_StagesInOrder ==
    \A r \in DOMAIN pc :
        LET tr == obs[r].trace
            n == IF Answered(r) THEN Len(tr) - 1 ELSE Len(tr)
        IN  /\ n <= Len(Stages)
            /\ \A i \in 1..n : tr[i] = Stages[i]
            /\ pc[r] # "Idle" => n >= 1
            /\ Answered(r) => tr[Len(tr)] = pc[r] /\ resp[r].status # 0
            /\ obs[r].sent = (IF Answered(r) THEN 1 ELSE 0)
            /\ (obs[r].gets > 0 \/ obs[r].puts # {}) =>
                   n >= 2 /\ WellFormed(req[r])
            /\ obs[r].retrievals > 0 =>
                   /\ obs[r].retrievals = 1
                   /\ n >= 3
                   /\ obs[r].checked = 1
                   /\ obs[r].rateLimitResult.allowed
                   /\ obs[r].gets = 2
            /\ (obs[r].dispatched > 0 \/ obs[r].generation # "none" \/ n = 5) =>
                   /\ n >= 4
                   /\ obs[r].retrievals = 1
                   /\ Len(EntriesFor(r)) >= 1

\* A request went through all five stages and was answered once.
C5_AllStagesDone ==
    /\ pc[1] = "Responded"
    /\ obs[1].trace = Stages \o <<"Responded">>
    /\ obs[1].generation = "text"
    /\ obs[1].sent = 1

RECURSIVE DecimalValue(_)
DecimalValue(digits) ==
    IF digits = <<>> THEN 0
    ELSE 10 * DecimalValue(SubSeq(digits, 1, Len(digits) - 1))
         + (CHOOSE d \in 0..9 : Base36Digits[d + 1] = digits[Len(digits)])

\* C6: a request the limiter denies is answered with status 429, a body
\* that carries the limiter's reason as error and its retryAfter, and a
\* Retry-After header with the same value; no retrieval and no generation
\* is done for it.
C6_DeniedIs429 ==
    \A r \in DOMAIN pc :
        (Checked(r) /\ ~obs[r].rateLimitResult.allowed) =>
            /\ resp[r].status = 429
            /\ resp[r].error = obs[r].rateLimitResult.reason
            /\ resp[r].error \in {SessionReason, IpReason}
            /\ resp[r].retryAfter = obs[r].rateLimitResult.retryAfter
            /\ resp[r].retryAfter > 0
            /\ resp[r].retryAfterHeader # <<>>
            /\ \A i \in 1..Len(resp[r].retryAfterHeader) :
                   resp[r].retryAfterHeader[i] \in DigitChars
            /\ DecimalValue(resp[r].retryAfterHeader) = resp[r].retryAfter
            /\ obs[r].retrievals = 0
            /\ obs[r].dispatched = 0
            /\ obs[r].generation = "none"

\* The address window denied a request an hour into the window: 429 with
\* Retry-After: 82800.
C6_DeniedByAddress ==
    /\ Checked(1)
    /\ resp[1].status = 429
    /\ resp[1].error = IpReason
    /\ resp[1].retryAfterHeader = <<"8", "2", "8", "0", "0">>

\* C7: a request the session window denies causes no put at all: the
\* session record is not written, and the address record is neither read
\* nor written.
C7_SessionDenialWritesNothing ==
    \A r \in DOMAIN pc :
        (Checked(r) /\ obs[r].rateLimitResult.reason = SessionReason) =>
            /\ ~obs[r].rateLimitResult.allowed
            /\ obs[r].puts = {}
            /\ obs[r].gets = 1
            /\ obs[r].idxIp = 0

\* The session window denied a request while both records were in the
\* store, the session's at its limit and the address's as the request
\* before had left it.
C7_SessionDeniedWithRecords ==
    /\ Checked(1)
    /\ obs[1].rateLimitResult.reason = SessionReason
    /\ resp[1].status = 429
    /\ sessionKey(Sid1) \in DOMAIN kv /\ ipKey(Ip1) \in DOMAIN kv
    /\ kv[sessionKey(Sid1)].value.count = VISITOR_LIMIT
    /\ kv[ipKey(Ip1)].value.count = IP_LIMIT
    /\ hist[ipKey(Ip1)].n = IP_LIMIT

\* The record a window check read is absent or past its resetAt.
Lapsed(data, t) == data = Null \/ data.resetAt <= t

\* C8: a request that finds no record for a window, or a record whose
\* resetAt has passed, is allowed by that window whatever the stored count
\* is, and writes {count: 1, resetAt: now + hour} for the session and
\* {count: 1, resetAt: now + day} for the address; so a session denied at
\* the limit is admitted again by its first request after resetAt.
C8_LapsedWindowStartsAfresh ==
    [][\A r \in DOMAIN pc :
          LET t == loc[r].t
              sKey == sessionKey(loc[r].sessionId)
              iKey == ipKey(loc[r].ipAddress)
          IN  /\ (pc[r] = "SessionGet" /\ pc'[r] # "SessionGet"
                    /\ Lapsed(KvGet(kv, sKey, now), t)) =>
                     pc'[r] = "SessionPut"
              /\ (pc[r] = "SessionPut" /\ pc'[r] # "SessionPut"
                    /\ Lapsed(loc[r].sessionData, t)) =>
                     /\ sKey \in DOMAIN kv'
                     /\ kv'[sKey].value = [count |-> 1, resetAt |-> t + 3600]
              /\ (pc[r] = "IpGet" /\ pc'[r] # "IpGet"
                    /\ Lapsed(KvGet(kv, iKey, now), t)) =>
                     pc'[r] = "IpPut"
              /\ (pc[r] = "IpPut" /\ pc'[r] # "IpPut"
                    /\ Lapsed(loc[r].ipData, t)) =>
                     /\ iKey \in DOMAIN kv'
                     /\ kv'[iKey].value = [count |-> 1, resetAt |-> t + 86400]
                     /\ obs'[r].rateLimitResult.allowed
      ]_vars

\* The request after a denial by the session window, made once that window
\* and the address window have lapsed, has been let through by both: the
\* session record is new, and the address record it read, past its resetAt,
\* had counted more than the session limit.
C8_AdmittedAfterReset ==
    /\ pc[1] = "IpPut"
    /\ obs[1].previous.reason = SessionReason
    /\ obs[1].idxSession = 1
    /\ sessionKey(loc[1].sessionId) \in DOMAIN kv
    /\ kv[sessionKey(loc[1].sessionId)].value =
           [count |-> 1, resetAt |-> now + HOUR_IN_SECONDS]
    /\ loc[1].ipData # Null
    /\ loc[1].ipData.resetAt <= loc[1].t
    /\ loc[1].ipData.count > VISITOR_LIMIT

\* C9: a request whose message is absent, is not a text or is empty once
\* trimmed is answered 400 with an error message before the limiter or any
\* later stage is touched, whatever JSON value the body is (null included).
C9_InvalidBodyIs400 ==
    \A r \in DOMAIN pc :
        (Answered(r) /\ req[r].body.parseable /\ ~WellFormed(req[r])) =>
            /\ resp[r].status = 400
            /\ resp[r].error = <<"Please provide a message.">>
            /\ obs[r].gets = 0 /\ obs[r].puts = {}
            /\ obs[r].retrievals = 0 /\ obs[r].dispatched = 0

\* C10: when the ranker returns nothing for an admitted request, the answer
\* is 200 with the fixed no-match message, the suggestions and
\* entriesFound = 0, and no generation call is made.
C10_NoMatchAnswer ==
    \A r \in DOMAIN pc :
        (Answered(r) /\ obs[r].retrievals > 0 /\ Len(EntriesFor(r)) = 0) =>
            /\ resp[r].status = 200
            /\ resp[r].message = NoMatchMessage
            /\ resp[r].suggestions
            /\ resp[r].entriesFound = 0
            /\ obs[r].dispatched = 0
            /\ obs[r].generation = "none"

\* A message of stop words only found nothing in a corpus without an
\* about entry and got the no-match answer.
C10_StopWordsNoMatch ==
    /\ pc[1] = "Responded"
    /\ req[1].body.message = JString(M_stop)
    /\ obs[1].retrievals = 1
    /\ resp[1].message = NoMatchMessage
    /\ resp[1].entriesFound = 0

\* C11 as stated: a chat request with a parseable body and a non-blank text
\* message is answered 200, 400 or 429 and nothing else, whatever the store
\* and the provider do, failing reads and writes of the store included.
C11_WellFormedNever500 ==
    \A r \in DOMAIN pc :
        (Answered(r) /\ WellFormed(req[r])) => resp[r].status \in {200, 400, 429}

\* C11 amended: a chat request with a parseable body and a non-blank text
\* message is answered 200 or 429 whatever the provider does, as long as
\* the store answers and the retrieved entries can be formatted; the only
\* other status is the 500 of a store failure or a formatter failure.
C11_WellFormedStatuses ==
    \A r \in DOMAIN pc :
        (Answered(r) /\ WellFormed(req[r])) =>
            /\ resp[r].status \in {200, 429, 500}
            /\ resp[r].status = 500 <=> obs[r].threw \in {"store", "formatter"}
            /\ resp[r].status = 429 <=>
                   (obs[r].checked = 1 /\ ~obs[r].rateLimitResult.allowed)
            /\ obs[r].generation # "none" => resp[r].status = 200

\* A well-formed request was admitted, and the one entry found for it has
\* no tags: the formatter threw and the answer was 500.
C11_FormatterFailed ==
    /\ Answered(1)
    /\ WellFormed(req[1])
    /\ obs[1].rateLimitResult.allowed /\ obs[1].retrievals = 1
    /\ obs[1].threw = "formatter"
    /\ resp[1].status = 500

\* C12: an exception in the chat handler that is not a generation failure
\* (a body that is not JSON, a null body, a failed get or put of the store,
\* a failed formatter) ends the request with status 500, the generic error
\* text and message = the fallback text; the request is answered once, and
\* a 500 is never sent for anything else.
C12_ExceptionIs500 ==
    \A r \in DOMAIN pc :
        /\ obs[r].threw # "none" =>
               /\ Answered(r)
               /\ obs[r].sent = 1
               /\ resp[r].status = 500
               /\ resp[r].error = <<"Internal server error. Please try again.">>
               /\ resp[r].message = FallbackMessage
               /\ obs[r].dispatched = 0
        /\ resp[r].status = 500 => obs[r].threw # "none"
        /\ ~req[r].body.parseable /\ pc[r] # "Idle" => obs[r].threw = "json"
        /\ req[r].body.t = "null" /\ pc[r] # "Idle" => obs[r].threw = "null"

\* The put of the address record failed after the session record had been
\* written, and the request was answered 500.
C12_PutFailed ==
    /\ Answered(1)
    /\ obs[1].threw = "store"
    /\ obs[1].gets = 2
    /\ obs[1].puts = {sessionKey(loc[1].sessionId)}
    /\ resp[1].status = 500

\* C13: no request has more than one call to the generation provider
\* dispatched for it, and a call that fails ends the request: it is
\* answered at once with the fallback text, the one call being all that
\* was made.
C13_OneCallNoRetry ==
    \A r \in DOMAIN pc :
        /\ obs[r].dispatched <= 1
        /\ pc[r] = "Fetching" => obs[r].dispatched = 1 /\ obs[r].generation = "none"
        /\ obs[r].generation \in FetchOutcomes =>
               Answered(r) /\ obs[r].dispatched = 1
        /\ (obs[r].generation \in FetchOutcomes /\ obs[r].generation # "text") =>
               resp[r].message = FallbackMessage
        /\ obs[r].generation = "unknown provider" => obs[r].dispatched = 0

\* The one call made for a request was rejected by the transport and the
\* request was answered with the fallback text.
C13_RejectedOnce ==
    /\ pc[1] = "Responded"
    /\ obs[1].generation = "reject"
    /\ obs[1].dispatched = 1
    /\ resp[1].message = FallbackMessage

\* The origins of the allow-list as configured.
AllowList ==
    { <<"h","t","t","p","s",":","/","/","y","o","u","r","s","i","t","e",".","c","o","m">>,
      <<"h","t","t","p","s",":","/","/","w","w","w",".","y","o","u","r","s","i","t","e",
        ".","c","o","m">>,
      <<"h","t","t","p",":","/","/","l","o","c","a","l","h","o","s","t",":","3","0","0","0">>,
      <<"h","t","t","p",":","/","/","l","o","c","a","l","h","o","s","t",":","8","0","0","0">>
    }

\* The request of invocation r names an origin that begins with an entry
\* of the allow-list.
BeginsAllowed(r) ==
    LET o == req[r].headers.origin
    IN  o # Undefined /\ \E a \in AllowList : StartsWith(o, a)

\* C14: every response of the worker (204 preflight, 200 health, 200 chat,
\* 400, 429, 404, 500) has an Access-Control-Allow-Origin header; its value
\* is the request's Origin exactly when that Origin begins with an entry of
\* the allow-list, and the first entry of the allow-list otherwise, a
\* request without Origin header included.
C14_AllowOriginOnEveryResponse ==
    \A r \in DOMAIN pc :
        Answered(r) =>
            /\ resp[r].status \in {200, 204, 400, 404, 429, 500}
            /\ resp[r].allowOrigin # Undefined
            /\ BeginsAllowed(r) <=> resp[r].allowOrigin = req[r].headers.origin
            /\ ~BeginsAllowed(r) =>
                   resp[r].allowOrigin =
                       <<"h","t","t","p","s",":","/","/","y","o","u","r","s","i","t","e",
                         ".","c","o","m">>

\* A chat request from the last origin of the allow-list was denied by the
\* limiter, and the 429 names that origin.
C14_EchoedOn429 ==
    /\ Answered(1)
    /\ resp[1].status = 429
    /\ req[1].headers.origin = O_local8000
    /\ resp[1].allowOrigin = O_local8000

\* C15: a request whose Origin is not an entry of the allow-list gets a
\* response whose Access-Control-Allow-Origin is an entry of the allow-list
\* and so is not the origin it sent.
C15_OutsideOriginNotEchoed ==
    \A r \in DOMAIN pc :
        (Answered(r) /\ req[r].headers.origin \notin AllowList) =>
            /\ resp[r].allowOrigin \in AllowList
            /\ resp[r].allowOrigin # req[r].headers.origin

(* ------------------------------------------------------------------ *)
(* The ranker                                                          *)
(* ------------------------------------------------------------------ *)
\* the score scoreEntry gave to an entry of the knowledge base
ScoreOf(e) == rank.scores[CHOOSE i \in 1..Len(kb) : kb[i] = e]

\* the entries of xs are entries of the knowledge base, in its order
InCorpusOrder(xs) ==
    \E f \in [1..Len(xs) -> 1..Len(kb)] :
        /\ \A k \in 1..Len(xs) : xs[k] = kb[f[k]]
        /\ \A k \in 1..(Len(xs) - 1) : f[k] < f[k + 1]

AboutKind(e) == e.type = "narrative" /\ e.topic = T_about

\* C16: for a question with at least one keyword, any corpus and any
\* topN >= 0, the entries retrieveEntries returns are entries of the corpus
\* whose scores never rise along the result, and there are at most topN.
C16_SortedAndBounded ==
    (rank.retrieved /\ rank.scored /\ Len(rank.keywords) >= 1 /\ rank.topN >= 0) =>
        /\ Len(rank.result) <= rank.topN
        /\ \A k \in 1..Len(rank.result) :
               \E i \in 1..Len(kb) : kb[i] = rank.result[k]
        /\ \A k \in 1..(Len(rank.result) - 1) :
               ScoreOf(rank.result[k]) >= ScoreOf(rank.result[k + 1])

\* Three entries scored above zero, the best of them not the first in the
\* corpus, and topN = 2 cut the result after the two best.
C16_TwoBestOfThree ==
    /\ rank.retrieved /\ rank.scored /\ Len(rank.keywords) >= 1
    /\ rank.topN = 2 /\ Len(rank.result) = 2
    /\ Cardinality({i \in 1..Len(kb) : rank.scores[i] > 0}) = 3
    /\ \E i, j \in 1..Len(kb) :
           /\ i < j /\ 0 < rank.scores[i] /\ rank.scores[i] < rank.scores[j]
           /\ rank.result[2] = kb[j]
    /\ ScoreOf(rank.result[1]) > ScoreOf(rank.result[2])

\* C17: for a question without keywords retrieveEntries returns only
\* narrative entries of topic "about", in corpus order, at most topN of them
\* and whatever they would score; over a corpus without such an entry it
\* returns nothing, and the chat request that asks the question gets the
\* fixed no-match answer.
C17_NoKeywordsGivesAbout ==
    (rank.scored /\ Len(rank.keywords) = 0) =>
        /\ rank.retrieved =>
              /\ \A k \in 1..Len(rank.result) : AboutKind(rank.result[k])
              /\ InCorpusOrder(rank.result)
              /\ Len(rank.result) <= rank.topN
              /\ (\A i \in 1..Len(kb) : ~AboutKind(kb[i])) => rank.result = <<>>
        /\ \A r \in DOMAIN pc :
              ( /\ Answered(r) /\ obs[r].retrievals = 1
                /\ req[r].body.message = JString(rank.question)
                /\ \A i \in 1..Len(kb) : ~AboutKind(kb[i]) ) =>
                    /\ resp[r].status = 200
                    /\ resp[r].message = NoMatchMessage
                    /\ resp[r].entriesFound = 0
                    /\ obs[r].dispatched = 0

\* Stop words only: the unverified overview entry came back ahead of the
\* verified one, as they stand in the corpus, and topN = 1 kept the first.
C17_AboutInCorpusOrder ==
    /\ rank.scored /\ rank.retrieved /\ rank.question = M_stop
    /\ rank.keywords = <<>>
    /\ kb = <<EntryStory, EntryFactProg, EntryAbout, EntryQaProg>>
    /\ \/ rank.topN = 1 /\ rank.result = <<EntryStory>>
       \/ rank.topN = 2 /\ rank.result = <<EntryStory, EntryAbout>>
    /\ rank.scores[1] < rank.scores[3]

\* the texts of an entry that scoreEntry may look into
FieldsOf(e) ==
    {x \in {e.content, e.answer, e.topic, e.title, e.question} : x # Undefined}
    \cup (IF e.tags = Undefined THEN {} ELSE Range(e.tags))

\* no keyword occurs in any field of the entry, whatever the case
MatchesNone(e, keywords) ==
    \A k \in 1..Len(keywords) :
        \A x \in FieldsOf(e) : ~includes(toLowerCase(x), keywords[k])

\* C18: with at least one keyword, a verified entry that matches none of
\* them scores exactly 1 and passes the score filter (it is in the result
\* unless topN entries stand before it); an inferred or approximate entry
\* that matches none scores 0 and is in no result.
C18_VerifiedFloor ==
    (rank.scored /\ Len(rank.keywords) >= 1) =>
        \A i \in 1..Len(kb) :
            MatchesNone(kb[i], rank.keywords) =>
                /\ kb[i].confidence = "verified" =>
                      /\ rank.scores[i] = 1
                      /\ rank.retrieved =>
                            \/ kb[i] \in Range(rank.result)
                            \/ Len(rank.result) = rank.topN
                /\ kb[i].confidence \in {"inferred", "approximate"} =>
                      /\ rank.scores[i] = 0
                      /\ rank.retrieved => kb[i] \notin Range(rank.result)

\* "xyz qqq" matches nothing: the verified entry is returned with score 1,
\* the approximate and the inferred entry are left out with score 0.
C18_OnlyVerifiedReturned ==
    /\ rank.scored /\ rank.retrieved /\ rank.question = M_none
    /\ Len(rank.keywords) = 2
    /\ kb = <<EntryFact, EntryAbout, EntryQa>>
    /\ rank.scores = <<0, 1, 0>>
    /\ rank.result = <<EntryAbout>>

\* f is the fact entry that is otherwise identical to the qa_pair entry q
SameButFact(q, f) ==
    /\ q.type = "qa_pair" /\ f.type = "fact"
    /\ f.topic = q.topic /\ f.tags = q.tags /\ f.confidence = q.confidence
    /\ f.title = q.title /\ f.content = q.answer

\* C19: a qa_pair entry whose stored question contains one of the keywords
\* scores at least 5 more than the otherwise identical fact entry, for the
\* same keywords.
C19_QuestionBoost ==
    rank.scored =>
        \A i, j \in 1..Len(kb) :
            ( /\ SameButFact(kb[i], kb[j])
              /\ \E k \in 1..Len(rank.keywords) :
                     includes(kb[i].question, rank.keywords[k]) ) =>
                rank.scores[i] >= rank.scores[j] + 5

\* "Which languages?" has one keyword, which the stored question contains:
\* the qa_pair entry scores exactly 5 more than its fact twin.
C19_OneKeywordFiveMore ==
    /\ rank.scored /\ rank.question = M_lang
    /\ rank.keywords = <<T_languages>>
    /\ kb = <<EntryQaProg, EntryQaProgAsFact, EntryFact, EntryStory>>
    /\ SameButFact(kb[1], kb[2])
    /\ includes(kb[1].question, T_languages)
    /\ rank.scores[1] = rank.scores[2] + 5

\* a qa_pair entry whose stored question contains every keyword
AnswersAll(e, keywords) ==
    /\ e.type = "qa_pair" /\ e.question # Undefined
    /\ \A k \in 1..Len(keywords) : includes(toLowerCase(e.question), keywords[k])

\* C20 as stated: for "What programming languages do you know?" and any
\* corpus holding a qa_pair entry with the question "What programming
\* languages does Jane know?", that entry is the first one returned; and
\* whatever the message, the first entry returned is a qa_pair whose
\* question contains every keyword whenever the corpus has one.
C20_MatchingQuestionFirst ==
    (rank.retrieved /\ rank.scored /\ rank.topN >= 1 /\ Len(rank.keywords) >= 1) =>
        /\ ( /\ rank.question = M_prog
             /\ \E i \in 1..Len(kb) :
                    kb[i].type = "qa_pair" /\ kb[i].question = Q_prog ) =>
                /\ rank.result # <<>>
                /\ rank.result[1].type = "qa_pair"
                /\ rank.result[1].question = Q_prog
        /\ (\E i \in 1..Len(kb) : AnswersAll(kb[i], rank.keywords)) =>
                /\ rank.result # <<>>
                /\ AnswersAll(rank.result[1], rank.keywords)

\* C20 amended: a qa_pair whose question contains every keyword scores at
\* least 5 per keyword, and it is the first entry returned (topN >= 1)
\* whenever every other entry of the corpus scores less than it.
C20_FirstUnlessOutscored ==
    (rank.retrieved /\ rank.scored /\ rank.topN >= 1 /\ Len(rank.keywords) >= 1) =>
        \A i \in 1..Len(kb) :
            AnswersAll(kb[i], rank.keywords) =>
                /\ rank.scores[i] >= 5 * Len(rank.keywords)
                /\ (\A j \in 1..Len(kb) \ {i} : rank.scores[j] < rank.scores[i]) =>
                       (rank.result # <<>> /\ rank.result[1] = kb[i])

\* The message of the scenario over a corpus in which the qa_pair entry
\* scores 17 and the next entry 2: it is returned first.
C20_QaPairReturnedFirst ==
    /\ rank.retrieved /\ rank.scored /\ rank.topN >= 1
    /\ rank.question = M_prog /\ Len(rank.keywords) = 3
    /\ kb = <<EntryQaProg, EntryQaProgAsFact, EntryFact, EntryStory>>
    /\ rank.scores = <<17, 2, 0, 0>>
    /\ rank.result[1] = EntryQaProg

(* ------------------------------------------------------------------ *)
(* The formatter                                                       *)
(* ------------------------------------------------------------------ *)
\* the place of the first occurrence of d in s, 0 when there is none
FirstAt(s, d) ==
    LET at == {i \in 1..(Len(s) - Len(d) + 1) : SubSeq(s, i, i + Len(d) - 1) = d}
    IN  IF at = {} THEN 0 ELSE CHOOSE i \in at : \A j \in at : i <= j

\* the pieces of s between the occurrences of d
RECURSIVE SplitBy(_, _)
SplitBy(s, d) ==
    IF FirstAt(s, d) = 0 THEN <<s>>
    ELSE <<SubSeq(s, 1, FirstAt(s, d) - 1)>>
         \o SplitBy(SubSeq(s, FirstAt(s, d) + Len(d), Len(s)), d)

\* the marker that opens the block of the i-th entry
Marker(i) == <<"[","E","n","t","r","y"," ">> \o ToDecimal(i) \o <<"]","\n">>

\* the text is n blocks with a divider between neighbours, the i-th opened
\* by [Entry i] and holding the text of the i-th entry
BlocksOf(text, entries) ==
    LET blocks == SplitBy(text, Divider)
    IN  /\ Len(blocks) = Len(entries)
        /\ \A i \in 1..Len(entries) :
               /\ StartsWith(blocks[i], Marker(i))
               /\ includes(blocks[i],
                           TextOf(IF entries[i].type = "qa_pair"
                                  THEN entries[i].answer ELSE entries[i].content))

\* C21: formatEntriesForContext returns the empty string for no entries, and
\* for n >= 1 entries a text of exactly n blocks with n - 1 dividers, the
\* i-th block opened by [Entry i] and describing the i-th entry.
C21_FormatsEveryEntry ==
    rank.formatted =>
        /\ ~rank.context.threw
        /\ rank.result = <<>> => rank.context.text = <<>>
        /\ rank.result # <<>> => BlocksOf(rank.context.text, rank.result)

(* ------------------------------------------------------------------ *)
(* The generation module                                               *)
(* ------------------------------------------------------------------ *)
\* ms is sys and rest shuffled together: its system messages have the
\* contents sys, in order, and its other messages are rest, in order
RECURSIVE Interleaves(_, _, _)
Interleaves(ms, sys, rest) ==
    IF ms = <<>> THEN sys = <<>> /\ rest = <<>>
    ELSE IF Head(ms).role = "system"
    THEN /\ sys # <<>> /\ Head(sys) = Head(ms).content
         /\ Interleaves(Tail(ms), Tail(sys), rest)
    ELSE /\ rest # <<>> /\ Head(rest) = Head(ms)
         /\ Interleaves(Tail(ms), sys, Tail(rest))

\* C22: the OpenAI payload carries the message list as it is; the Anthropic
\* payload carries the contents of the system messages, in order, joined
\* into its system field (empty when there are none) and the other
\* messages, in order, as its messages; nothing is dropped or doubled, and
\* both carry model, temperature and max_tokens as given.
C22_PayloadsCarryTheMessages ==
    gen.called = "buildPayload" =>
        /\ gen.openai.messages = gen.messages
        /\ Interleaves(gen.messages,
                       IF gen.anthropic.system = <<>> THEN <<>>
                       ELSE SplitBy(gen.anthropic.system, <<"\n", "\n">>),
                       gen.anthropic.messages)
        /\ \A payload \in {gen.openai, gen.anthropic} :
               /\ payload.model = gen.model
               /\ payload.temperature = gen.temperature
               /\ payload.max_tokens = gen.maxTokens

\* A system message after the user message: both system contents are in
\* the system field, the user message alone in messages.
C22_SystemAfterUser ==
    /\ gen.called = "buildPayload"
    /\ gen.messages = << Msg("system", <<"B","e"," ","b","r","i","e","f",".">>), Msg("user", <<"H","e","l","l","o">>), Msg("system", <<"C","o","n","t","e","x","t",".">>) >>
    /\ gen.anthropic.system = <<"B","e"," ","b","r","i","e","f",".","\n","\n","C","o","n","t","e","x","t",".">>
    /\ gen.anthropic.messages = << Msg("user", <<"H","e","l","l","o">>) >>
    /\ Len(gen.openai.messages) = 3

\* generateResponse has ended with an exception after its HTTP call
FailedAfterFetch ==
    /\ gen.called = "generateResponse"
    /\ KnownProvider(gen.provider)
    /\ gen.result.threw

\* C23: whenever generateResponse fails to complete (the HTTP call fails,
\* the upstream status is not a success, the body is malformed or empty of
\* content) the error the caller gets carries the provider name and the
\* upstream status.
C23_FailuresCarryProviderAndStatus ==
    FailedAfterFetch =>
        /\ gen.result.error.provider = gen.provider
        /\ gen.result.error.status # 0
        /\ ~gen.exchange.rejected => gen.result.error.status = gen.exchange.status

\* the list extractResponse reads for the provider
ListRead == IF gen.provider = OpenAI THEN gen.data.choices ELSE gen.data.content

\* C24: for both providers extractResponse throws the error that names the
\* provider ("No response from ... API") when the choices / content list is
\* missing or empty, and otherwise returns the trimmed text of the first
\* element; a missing or empty list never gives an empty result silently.
C24_ExtractsOrNamesTheProvider ==
    gen.called = "extractResponse" =>
        IF ~ListRead.present \/ Len(ListRead.items) = 0
        THEN /\ gen.result.threw
             /\ gen.result.error.kind = "No response"
             /\ gen.result.error.provider = gen.provider
        ELSE /\ ~gen.result.threw
             /\ gen.result.text = trim(ListRead.items[1].text)

(* ------------------------------------------------------------------ *)
(* One client, with and without session identifiers                    *)
(* ------------------------------------------------------------------ *)
\* The request of invocation r passed validation: its session identifier
\* and address have been taken from its headers.
Validated(r) == Len(obs[r].trace) >= 2 /\ obs[r].trace[2] = "Validated"

\* The request of invocation r carries no session identifier.
HeaderLess(r) == ~Truthy(req[r].headers.xSessionId)

\* the session windows opened for requests without a session identifier
AnonKeys ==
    { k \in DOMAIN hist :
        k[1] = "session" /\ k[2] \notin { h.xSessionId : h \in FreshHeaderSets } }

\* C25: a request that carries a (non-empty) X-Session-ID is counted under
\* that identifier; requests without one that come from the same address
\* and user agent all fall into one session window, whatever their other
\* headers, so the first ten of them pass the session limit and the 11th
\* and later within the hour are denied by it.
C25_SessionIdFromHeaderOrAddress ==
    /\ (Validated(1) /\ ~HeaderLess(1)) =>
            loc[1].sessionId = req[1].headers.xSessionId
    /\ Cardinality(AnonKeys) <= 1
    /\ (Validated(1) /\ HeaderLess(1) /\ pc[1] # "SessionGet") =>
            AnonKeys = {sessionKey(loc[1].sessionId)}
    /\ (Checked(1) /\ HeaderLess(1)) =>
            (obs[1].idxSession > VISITOR_LIMIT
                <=> (resp[1].status = 429 /\ resp[1].error = SessionReason))

\* The 11th request without a session identifier, this one with an Origin
\* header, is denied by the session limit; nothing but such requests came.
C25_EleventhAnonymousDenied ==
    /\ Checked(1) /\ HeaderLess(1)
    /\ req[1].headers.origin = O_site
    /\ obs[1].idxSession = VISITOR_LIMIT + 1
    /\ resp[1].status = 429 /\ resp[1].error = SessionReason
    /\ FreshSent = 0

\* the requests the address window of the client has let through so far
Admitted ==
    IF ipKey(Ip1) \in DOMAIN hist THEN hist[ipKey(Ip1)].passed ELSE 0

\* C30: of the requests that come from one address one after another inside
\* one address window, at most 100 are admitted, whatever session
\* identifiers they carry: a new identifier on every request gets past the
\* session limit but not past the address limit.
C30_AtMostIpLimitAdmitted ==
    /\ Admitted <= IP_LIMIT
    /\ (Checked(1) /\ obs[1].idxIp > IP_LIMIT) =>
            (resp[1].status = 429 /\ resp[1].error = IpReason)

\* The client has sent more than 100 identifiers, each once: 100 requests
\* have been admitted and this one, under an identifier never seen before,
\* is denied by the address limit.
C30_FreshIdentifierDenied ==
    /\ Checked(1) /\ ~HeaderLess(1)
    /\ AnonKeys = {}
    /\ FreshSent = IP_LIMIT + 1
    /\ obs[1].idxSession = 1
    /\ Admitted = IP_LIMIT
    /\ resp[1].status = 429 /\ resp[1].error = IpReason

(* ------------------------------------------------------------------ *)
(* The router                                                          *)
(* ------------------------------------------------------------------ *)
\* the response a route other than POST /chat gives to request q
Routed(response, q) ==
    [response EXCEPT !.allowOrigin = getCorsHeaders(q.headers.origin)]

\* C26: every request is routed, and by its method and path alone: OPTIONS
\* on any path gets 204 without a body, GET /health gets 200, POST /chat
\* goes to the chat handler, anything else gets 404; a request other than
\* POST /chat is answered at once without a read or write of the store and
\* without a retrieval or a call to the provider.
C26_RoutesByMethodAndPath ==
    [][ served' = served + 1 =>
          LET q == req'[1]
              chat == q.method = "POST" /\ q.path = "/chat"
          IN  /\ q.method = "OPTIONS" => resp'[1] = Routed(Response204, q)
              /\ (q.method = "GET" /\ q.path = "/health") =>
                     resp'[1] = Routed(ResponseHealth, q)
              /\ chat => /\ obs'[1].trace[1] = "Received"
                         /\ \/ pc'[1] = "SessionGet"
                            \/ pc'[1] \in Terminal /\ resp'[1].status \in {400, 500}
              /\ (q.method # "OPTIONS" /\ ~(q.method = "GET" /\ q.path = "/health")
                    /\ ~chat) => resp'[1] = Routed(Response404, q)
              /\ ~chat => /\ pc'[1] \in Terminal
                          /\ kv' = kv
                          /\ obs'[1].gets = 0 /\ obs'[1].puts = {}
                          /\ obs'[1].retrievals = 0 /\ obs'[1].dispatched = 0
    ]_vars

\* With records in the store and a request served before it, OPTIONS /chat
\* is answered 204 without a body and without a read of the store.
C26_PreflightOnChatPath ==
    /\ Answered(1)
    /\ req[1].method = "OPTIONS" /\ req[1].path = "/chat"
    /\ resp[1].status = 204 /\ resp[1].body = "null"
    /\ obs[1].gets = 0
    /\ kv # EmptyStore
    /\ served = MaxRouteRequests

(* ------------------------------------------------------------------ *)
(* The stored counts                                                   *)
(* ------------------------------------------------------------------ *)
\* C27: however the gets and puts of overlapping checkRateLimit calls
\* interleave, every session record in the store has a count from 1 to 10
\* and every address record a count from 1 to 100: the race lets more
\* requests through than the limit, never a stored count above it.
C27_StoredCountsWithinLimits ==
    \A key \in DOMAIN kv :
        /\ key[1] = "session" => kv[key].value.count \in 1..VISITOR_LIMIT
        /\ key[1] = "ip" => kv[key].value.count \in 1..IP_LIMIT

\* Two overlapping requests both read the session count 9 and both wrote
\* 10: eleven have passed the session check, the record says 10, and both
\* now wait for the address record.
C27_ElevenPassedTenStored ==
    /\ \A r \in Slots : r \in DOMAIN pc /\ pc[r] = "IpGet"
    /\ sessionKey(Sid1) \in DOMAIN kv /\ sessionKey(Sid1) \in DOMAIN hist
    /\ kv[sessionKey(Sid1)].value.count = VISITOR_LIMIT
    /\ hist[sessionKey(Sid1)].passed = VISITOR_LIMIT + 1
    /\ kv[ipKey(Ip1)].value.count = IP_LIMIT - 1

(* ------------------------------------------------------------------ *)
(* What a denied request leaves in the store                           *)
(* ------------------------------------------------------------------ *)
\* the session key of the request invocation r serves
SessionKeyOf(r) == sessionKey(loc[r].sessionId)

\* C28: a request that gets as far as the address check has written its
\* session record first (the count it read plus one, or 1 for a new
\* window), and that is its only put when the address window then denies
\* it: the denying step leaves the store as it is, the address record
\* included, and the session record in it unless the hour has passed
\* meanwhile. The step in which the session window denies a request comes
\* after no put at all.
C28_IpDenialKeepsSessionWrite ==
    [][ /\ (pc[1] = "SessionPut" /\ pc'[1] = "IpGet") =>
              /\ obs'[1].puts = {SessionKeyOf(1)}
              /\ kv'[SessionKeyOf(1)].value.count =
                     IF Lapsed(loc[1].sessionData, loc[1].t) THEN 1
                     ELSE loc[1].sessionData.count + 1
        /\ (pc[1] = "IpGet" /\ pc'[1] \in Terminal) =>
              /\ resp'[1].status = 429 /\ resp'[1].error = IpReason
              /\ kv' = kv
              /\ obs'[1].puts = {SessionKeyOf(1)}
              /\ now < loc[1].t + HOUR_IN_SECONDS =>
                     /\ SessionKeyOf(1) \in DOMAIN kv
                     /\ kv[SessionKeyOf(1)].value.count >= 1
        /\ (pc[1] = "SessionGet" /\ pc'[1] \in Terminal) =>
              /\ resp'[1].status = 429 /\ resp'[1].error = SessionReason
              /\ kv' = kv
              /\ obs'[1].puts = {}
    ]_vars

\* The address window denied the first request of a client without session
\* identifier: the address record is at its limit as before, and the store
\* now holds a session record with count 1 for the client.
C28_DeniedButSessionOpened ==
    /\ Checked(1) /\ HeaderLess(1)
    /\ resp[1].status = 429 /\ resp[1].error = IpReason
    /\ obs[1].puts = {SessionKeyOf(1)}
    /\ SessionKeyOf(1) \in DOMAIN kv
    /\ kv[SessionKeyOf(1)].value.count = 1
    /\ kv[ipKey(Ip1)].value.count = IP_LIMIT

(* ------------------------------------------------------------------ *)
(* Which requests reach the limiter                                    *)
(* ------------------------------------------------------------------ *)
\* C29: a chat request whose body cannot be parsed or whose message is not
\* a text with something other than blanks is answered 400 or 500 without
\* a read or write of the store and without being counted in any window;
\* a request with a proper message goes through the rate check exactly
\* once, whatever it is answered with afterwards.
C29_OnlyValidRequestsAreCounted ==
    \A r \in DOMAIN pc :
        /\ obs[r].checked <= 1
        /\ (Answered(r) /\ ~WellFormed(req[r])) =>
               /\ resp[r].status \in {400, 500}
               /\ obs[r].gets = 0 /\ obs[r].puts = {}
               /\ obs[r].checked = 0
               /\ obs[r].idxSession = 0 /\ obs[r].idxIp = 0
        /\ (Answered(r) /\ WellFormed(req[r])) =>
               /\ obs[r].checked = 1
               /\ obs[r].gets \in 1..2

\* The last request of a session one short of its limit had a body that is
\* not JSON: it is answered 500, and the session record still says nine.
C29_UnparseableNotCounted ==
    /\ Answered(1)
    /\ ~req[1].body.parseable
    /\ resp[1].status = 500
    /\ obs[1].gets = 0
    /\ served = MaxRequests
    /\ sessionKey(Sid1) \in DOMAIN kv
    /\ kv[sessionKey(Sid1)].value.count = VISITOR_LIMIT - 1

(* ------------------------------------------------------------------ *)
(* Fixed windows                                                       *)
(* ------------------------------------------------------------------ *)
\* invocation r puts the record of key in this step, having read `read`
PutsAfter(r, key, read) ==
    \/ /\ pc[r] = "SessionPut" /\ pc'[r] # "SessionPut"
       /\ key = sessionKey(loc[r].sessionId) /\ read = loc[r].sessionData
    \/ /\ pc[r] = "IpPut" /\ pc'[r] # "IpPut"
       /\ key = ipKey(loc[r].ipAddress) /\ read = loc[r].ipData

\* C31: windows are fixed. With requests served one after another, a
\* request admitted inside a live window writes the count it read plus one
\* with the resetAt it read, a denying step writes nothing, and the resetAt
\* stored under a key changes only in a put of a request that found no
\* record or one past its resetAt, which sets it to the request's time plus
\* the window length.
C31_WindowsAreFixed ==
    [][ /\ \A key \in DOMAIN kv', read \in {loc[1].sessionData, loc[1].ipData} :
              (PutsAfter(1, key, read) /\ ~Lapsed(read, loc[1].t)) =>
                  kv'[key].value = [count |-> read.count + 1, resetAt |-> read.resetAt]
        /\ (pc[1] \in {"SessionGet", "IpGet"} /\ pc'[1] \in Terminal) => kv' = kv
        /\ \A key \in DOMAIN kv \cap DOMAIN kv' :
              kv'[key].value.resetAt # kv[key].value.resetAt =>
                  /\ \E read \in {loc[1].sessionData, loc[1].ipData} :
                         PutsAfter(1, key, read) /\ Lapsed(read, loc[1].t)
                  /\ kv'[key].value.resetAt = loc[1].t + WindowOf(key)
    ]_vars

\* Half an hour into the window a client without session identifier opened
\* with its first request, its second request has been counted: the record
\* says 2 and still ends an hour after the first.
C31_SecondKeepsResetAt ==
    /\ pc[1] = "IpGet"
    /\ HeaderLess(1)
    /\ loc[1].t = ClockStep
    /\ SessionKeyOf(1) \in DOMAIN kv
    /\ kv[SessionKeyOf(1)].value = [count |-> 2, resetAt |-> HOUR_IN_SECONDS]

(* ------------------------------------------------------------------ *)
(* When a window denies, and for how long                              *)
(* ------------------------------------------------------------------ *)
\* The step in which the get of invocation r resolves denies if and only if
\* the record it gets exists, has its resetAt after the time the call read
\* at its start and a count at the limit; the denial then carries resetAt
\* minus that time, which is positive, and the reason of the window.
DeniesAsRead(r, at, key, limit, reason) ==
    (pc[r] = at /\ pc'[r] # at) =>
        LET data == KvGet(kv, key, now)
            full == /\ data # Null
                    /\ loc[r].t < data.resetAt
                    /\ data.count >= limit
        IN  /\ full <=> pc'[r] \in Terminal
            /\ full =>
                  /\ obs'[r].rateLimitResult = Denied(reason, data.resetAt - loc[r].t)
                  /\ obs'[r].rateLimitResult.retryAfter > 0
                  /\ resp'[r].status = 429
                  /\ resp'[r].error = reason

\* invocation r is denied in this step, for at most `most` seconds
DeniedFor(r, at, most) ==
    (pc[r] = at /\ pc'[r] \in Terminal) => obs'[r].rateLimitResult.retryAfter <= most

\* C32 as stated: a window denies exactly when its record exists with
\* now < resetAt and count >= limit; every denial carries
\* retryAfter = resetAt - now with 0 < retryAfter <= 3600 for the session and
\* <= 86400 for the address, and the reason of the window that denied.
C32_RetryAfterWithinWindow ==
    [][ \A r \in DOMAIN pc :
          /\ DeniesAsRead(r, "SessionGet", sessionKey(loc[r].sessionId),
                          VISITOR_LIMIT, SessionReason)
          /\ DeniesAsRead(r, "IpGet", ipKey(loc[r].ipAddress), IP_LIMIT, IpReason)
          /\ DeniedFor(r, "SessionGet", HOUR_IN_SECONDS)
          /\ DeniedFor(r, "IpGet", DAY_IN_SECONDS)
    ]_vars

\* C32, amended: a window denies exactly when its record exists with
\* now < resetAt and count >= limit, now being the time the call read at its
\* start; every denial carries retryAfter = resetAt - now > 0 and the reason
\* of the window that denied, and retryAfter is at most the window length
\* plus the time that has passed since the call read the clock.
C32_RetryAfterFromCallTime ==
    [][ \A r \in DOMAIN pc :
          /\ DeniesAsRead(r, "SessionGet", sessionKey(loc[r].sessionId),
                          VISITOR_LIMIT, SessionReason)
          /\ DeniesAsRead(r, "IpGet", ipKey(loc[r].ipAddress), IP_LIMIT, IpReason)
          /\ DeniedFor(r, "SessionGet", HOUR_IN_SECONDS + (now - loc[r].t))
          /\ DeniedFor(r, "IpGet", DAY_IN_SECONDS + (now - loc[r].t))
    ]_vars

\* The request that read the clock at 0 got its session record half an hour
\* later, after ten later requests had opened and filled a window: it is
\* denied for an hour and a half.
C32_StaleCallDeniedLonger ==
    /\ Checked(1)
    /\ loc[1].t = 0
    /\ now = ClockStep
    /\ obs[1].rateLimitResult = Denied(SessionReason, HOUR_IN_SECONDS + ClockStep)
    /\ kv[sessionKey(Sid1)].value = [count |-> VISITOR_LIMIT,
                                     resetAt |-> ClockStep + HOUR_IN_SECONDS]

(* ------------------------------------------------------------------ *)
(* The verified bonus in the chat handler                              *)
(* ------------------------------------------------------------------ *)
HasVerified(corpus) == \E i \in 1..Len(corpus) : corpus[i].confidence = "verified"

\* the chat handler has run retrieval for a message with a keyword over a
\* corpus that holds a verified entry
RetrievedWithVerified(r) ==
    /\ obs[r].retrievals = 1
    /\ HasVerified(kb)
    /\ Len(extractKeywords(loc[r].message)) >= 1

\* C33: when the corpus holds at least one verified entry, every admitted
\* chat message with at least one keyword retrieves at least one entry, is
\* never answered with the no-match response, and has a generation call
\* attempted for it, even when no entry matches a keyword.
C33_VerifiedAlwaysGenerates ==
    \A r \in DOMAIN pc :
        RetrievedWithVerified(r) =>
            /\ Len(EntriesFor(r)) >= 1
            /\ resp[r] # ResponseNoMatch
            /\ obs[r].dispatched = 1 \/ obs[r].generation = "unknown provider"

\* C33 without the attempt: at least one entry is retrieved and the
\* no-match response is not returned.
C33_VerifiedAlwaysRetrieved ==
    \A r \in DOMAIN pc :
        RetrievedWithVerified(r) =>
            /\ Len(EntriesFor(r)) >= 1
            /\ resp[r] # ResponseNoMatch

(* ------------------------------------------------------------------ *)
(* Keys and providers                                                  *)
(* ------------------------------------------------------------------ *)
\* the call goes to Anthropic with the Anthropic key and nothing of OpenAI's
ToAnthropic(call) ==
    /\ call.url = "https://api.anthropic.com/v1/messages"
    /\ call.headers.xApiKey = <<AnthropicKey>>
    /\ call.headers.anthropicVersion # NoHeader
    /\ call.headers.authorization = NoHeader

\* the call goes to OpenAI with the OpenAI key as a bearer token and nothing
\* of Anthropic's
ToOpenAI(call) ==
    /\ call.url = "https://api.openai.com/v1/chat/completions"
    /\ call.headers.authorization = <<"Bearer", OpenAIKey>>
    /\ call.headers.xApiKey = NoHeader

\* C34: an API key is only ever sent to its own provider: a dispatched
\* generation call either has anthropic configured and goes to the Anthropic
\* endpoint with ANTHROPIC_API_KEY in x-api-key, a version header and no
\* Authorization header, or has openai configured and goes to the OpenAI
\* endpoint with OPENAI_API_KEY as a Bearer Authorization header and no
\* x-api-key header; a configuration that names neither dispatches nothing.
C34_KeyGoesToItsProvider ==
    \A r \in DOMAIN pc :
        LET configured == toLowerCase(OrElse(env.AI_PROVIDER, OpenAI))
        IN  /\ fetch[r].state # "none" =>
                \/ configured = Anthropic /\ ToAnthropic(fetch[r])
                \/ configured = OpenAI /\ ToOpenAI(fetch[r])
            /\ fetch[r].state # "none" <=> pc[r] = "Fetching"
            /\ configured \notin {OpenAI, Anthropic} => obs[r].dispatched = 0

\* A worker configured with AI_PROVIDER = "Anthropic" has a call under way
\* to the Anthropic endpoint, carrying the Anthropic key.
C34_AnthropicKeyToAnthropic ==
    /\ pc[1] = "Fetching"
    /\ env.AI_PROVIDER = <<"A","n","t","h","r","o","p","i","c">>
    /\ fetch[1].url = "https://api.anthropic.com/v1/messages"
    /\ fetch[1].headers.xApiKey = <<"sk-ant">>
    /\ fetch[1].headers.authorization = <<>>

(* ------------------------------------------------------------------ *)
(* A provider that is not in the registry                              *)
(* ------------------------------------------------------------------ *)
\* the worker is configured with a provider name PROVIDERS does not have
UnknownConfigured == ~KnownProvider(toLowerCase(OrElse(env.AI_PROVIDER, OpenAI)))

\* the handler has retrieved at least one entry for invocation r
RetrievedSome(r) == obs[r].retrievals = 1 /\ Len(EntriesFor(r)) >= 1

\* C35: with a provider name that is not a key of the registry,
\* generateResponse fails before any network call and the handler answers
\* 200 with the fallback text: every admitted request with retrieved entries
\* ends in the fallback response, and no upstream call is ever dispatched.
C35_UnknownProviderFallsBack ==
    \A r \in DOMAIN pc :
        UnknownConfigured =>
            /\ obs[r].dispatched = 0
            /\ pc[r] # "Fetching"
            /\ RetrievedSome(r) =>
                  /\ obs[r].generation = "unknown provider"
                  /\ resp[r].status = 200
                  /\ resp[r].message = FallbackMessage
                  /\ resp[r].entriesFound = Len(EntriesFor(r))

\* C35 once generateResponse has been called: no call is dispatched, and the
\* request is answered 200 with the fallback text.
C35_UnknownProviderNeverDispatches ==
    \A r \in DOMAIN pc :
        UnknownConfigured =>
            /\ obs[r].dispatched = 0
            /\ pc[r] # "Fetching"
            /\ (RetrievedSome(r) /\ obs[r].threw = "none") =>
                  /\ obs[r].generation = "unknown provider"
                  /\ resp[r].status = 200
                  /\ resp[r].message = FallbackMessage

(* ------------------------------------------------------------------ *)
(* The ranker against its reference                                    *)
(* ------------------------------------------------------------------ *)
\* the entries of the knowledge base that scored above zero, by position
Kept == {i \in 1..Len(kb) : rank.scores[i] > 0}

\* the place of entry i among the kept ones: after every entry that scored
\* more, and after every earlier entry that scored the same
PlaceOf(i) ==
    1 + Cardinality({j \in Kept : \/ rank.scores[j] > rank.scores[i]
                                  \/ rank.scores[j] = rank.scores[i] /\ j < i})

\* the kept entries by descending score, ties in corpus order, cut at topN
Reference ==
    [k \in 1..Min(rank.topN, Cardinality(Kept)) |->
        kb[CHOOSE i \in Kept : PlaceOf(i) = k]]

\* C36: for a question with at least one keyword retrieveEntries equals the
\* reference result: the corpus entries with score > 0, by descending score
\* with ties in corpus order, cut at topN. So every returned entry is an
\* entry of the corpus and none is returned twice, no omitted entry scores
\* strictly higher than a returned one, and an empty corpus gives an empty
\* result.
C36_EqualsReference ==
    (rank.retrieved /\ rank.scored /\ Len(rank.keywords) >= 1) =>
        /\ rank.result = Reference
        /\ \A k \in 1..Len(rank.result) : \E i \in 1..Len(kb) : kb[i] = rank.result[k]
        /\ \A k, l \in 1..Len(rank.result) : rank.result[k] = rank.result[l] => k = l
        /\ \A i \in 1..Len(kb) :
               (\A k \in 1..Len(rank.result) : rank.result[k] # kb[i]) =>
                   \A k \in 1..Len(rank.result) :
                       rank.scores[i] <= ScoreOf(rank.result[k])
        /\ kb = <<>> => rank.result = <<>>

\* Two entries with the same score above zero were returned next to each
\* other in corpus order, behind a better one and ahead of one left out.
C36_TieInCorpusOrder ==
    /\ rank.retrieved /\ rank.scored /\ Len(rank.keywords) >= 1
    /\ rank.topN = 3 /\ Len(rank.result) = 3 /\ Cardinality(Kept) = 4
    /\ \E i, j \in 1..Len(kb) :
           /\ i < j /\ rank.scores[i] = rank.scores[j]
           /\ rank.result[2] = kb[i] /\ rank.result[3] = kb[j]
    /\ ScoreOf(rank.result[1]) > ScoreOf(rank.result[2])

(* ------------------------------------------------------------------ *)
(* The score of an entry                                               *)
(* ------------------------------------------------------------------ *)
\* the primary text of an entry: its content, or its answer when it has no
\* content
PrimaryText(e) ==
    IF Truthy(e.content) THEN e.content
    ELSE IF Truthy(e.answer) THEN e.answer ELSE <<>>

\* the field is there and, lower-cased, contains the token
Contains(field, token) == Truthy(field) /\ includes(toLowerCase(field), token)

\* the score counted field by field: how many tokens of the sequence (by
\* position, so a token that occurs twice counts twice) each field contains
ExpectedScore(e, keywords) ==
    LET at == 1..Len(keywords)
    IN    3 * Cardinality({k \in at : Contains(PrimaryText(e), keywords[k])})
        + 2 * Cardinality({k \in at : Contains(e.topic, keywords[k])})
        + 2 * Cardinality({k \in at : Contains(e.title, keywords[k])})
        + Cardinality({k \in at : /\ e.tags # Undefined
                                  /\ \E t \in 1..Len(e.tags) :
                                         Contains(e.tags[t], keywords[k])})
        + 5 * Cardinality({k \in at : /\ e.type = "qa_pair"
                                      /\ Contains(e.question, keywords[k])})
        + (IF e.confidence = "verified" THEN 1 ELSE 0)

\* C37: scoreEntry returns exactly the sum over every keyword token of the
\* sequence, duplicates counted each time, of 3 if the primary text (content,
\* or the answer when content is absent) contains it, 2 if the topic does,
\* 2 if the title does, 1 if at least one tag does (1 at most, however many
\* tags match) and 5 if the entry is a qa_pair whose question does, plus 1
\* once if confidence is verified; the result is a non-negative integer and
\* the entry's fields are matched whatever their case.
C37_ScoreIsTheSum ==
    rank.scored =>
        \A i \in 1..Len(kb) :
            /\ rank.scores[i] = ExpectedScore(kb[i], rank.keywords)
            /\ rank.scores[i] \in Nat

\* "Python, PYTHON v3?" gives the keyword python twice; the fact that has it in
\* content, topic, title and two of its three tags scores 2 * (3 + 2 + 2 + 1),
\* and the verified qa_pair that has it in its answer and one tag but not in
\* its question scores 2 * (3 + 1) + 1.
C37_TwiceTheKeyword ==
    /\ rank.scored
    /\ rank.keywords = <<T_python, T_python>>
    /\ kb = <<EntryPy, EntryQaProg>>
    /\ rank.scores = <<16, 9>>

(* ------------------------------------------------------------------ *)
(* A matching question against matching content                        *)
(* ------------------------------------------------------------------ *)
\* a qa_pair whose stored question contains every keyword
QuestionHasAll(e, keywords) ==
    /\ e.type = "qa_pair"
    /\ \A k \in 1..Len(keywords) : Contains(e.question, keywords[k])

\* an entry that matches a keyword in its primary text and nowhere else
ContentOnly(e, keywords) ==
    /\ \E k \in 1..Len(keywords) : Contains(PrimaryText(e), keywords[k])
    /\ \A k \in 1..Len(keywords) :
          /\ ~Contains(e.topic, keywords[k])
          /\ ~Contains(e.title, keywords[k])
          /\ e.tags # Undefined =>
                 \A t \in 1..Len(e.tags) : ~Contains(e.tags[t], keywords[k])
          /\ ~(e.type = "qa_pair" /\ Contains(e.question, keywords[k]))

\* where the entry stands in the result, 0 when it is not in it
PositionOf(e) ==
    IF \E k \in 1..Len(rank.result) : rank.result[k] = e
    THEN CHOOSE k \in 1..Len(rank.result) : rank.result[k] = e
    ELSE 0

\* C38: for a question with at least one keyword, a qa_pair whose stored
\* question contains every keyword scores strictly higher than any entry
\* whose only keyword matches are in its primary content text, even when
\* that entry is verified and the qa_pair is not; so the qa_pair is ranked
\* ahead of every content-only match.
C38_QuestionBeatsContent ==
    (rank.scored /\ Len(rank.keywords) >= 1) =>
        \A i, j \in 1..Len(kb) :
            (QuestionHasAll(kb[i], rank.keywords) /\ ContentOnly(kb[j], rank.keywords)) =>
                /\ rank.scores[i] > rank.scores[j]
                /\ (rank.retrieved /\ PositionOf(kb[j]) > 0) =>
                       /\ PositionOf(kb[i]) > 0
                       /\ PositionOf(kb[i]) < PositionOf(kb[j])

\* "Which languages?": the inferred qa_pair that asks about languages is
\* returned ahead of the verified fact that has the word in its content and
\* stands before it in the corpus.
C38_InferredQaAheadOfVerified ==
    /\ rank.scored /\ rank.retrieved
    /\ rank.keywords = <<T_languages>>
    /\ kb = <<EntryLangs, EntryQa>>
    /\ ContentOnly(kb[1], rank.keywords) /\ QuestionHasAll(kb[2], rank.keywords)
    /\ rank.scores = <<4, 6>>
    /\ rank.result = <<EntryQa, EntryLangs>>

(* ------------------------------------------------------------------ *)
(* The keywords of a question                                          *)
(* ------------------------------------------------------------------ *)
\* the character before or after position i that ends a token there: none,
\* or one that is not a word character
EndsToken(s, i) == IF i < 1 \/ i > Len(s) THEN TRUE ELSE ~IsWordChar(s[i])

\* where the tokens of s lie: the maximal runs of word characters, each
\* from a word character that follows none to the next one that precedes none
TokensOf(s) ==
    LET first == { i \in 1..Len(s) : IsWordChar(s[i]) /\ EndsToken(s, i - 1) }
        last == { i \in 1..Len(s) : IsWordChar(s[i]) /\ EndsToken(s, i + 1) }
    IN  { p \in first \X last :
            /\ p[1] <= p[2]
            /\ \A e \in last : ~(p[1] <= e /\ e < p[2]) }

\* the tokens that are long enough and not stop words, from left to right
ExpectedKeywords(question) ==
    LET s == toLowerCase(question)
        kept == { p \in TokensOf(s) :
                    /\ p[2] - p[1] + 1 > 2
                    /\ SubSeq(s, p[1], p[2]) \notin stopWords }
        before(p) == Cardinality({ q \in kept : q[1] < p[1] })
    IN  [k \in 1..Cardinality(kept) |->
            LET p == CHOOSE q \in kept : before(q) = k - 1
            IN  SubSeq(s, p[1], p[2])]

\* C39: extractKeywords returns, in their order in the question and with
\* duplicates kept, exactly the tokens of the lower-cased question (what
\* stands between characters that are not word characters) that are longer
\* than 2 and not stop words; every returned token is lower-case, and an
\* empty question or one of stop words only gives none.
C39_KeywordsAreTheTokens ==
    rank.scored =>
        /\ rank.keywords = ExpectedKeywords(rank.question)
        /\ \A k \in 1..Len(rank.keywords) :
               /\ Len(rank.keywords[k]) > 2
               /\ rank.keywords[k] \notin stopWords
               /\ \A i \in 1..Len(rank.keywords[k]) :
                      rank.keywords[k][i] \notin Range(UpperChars)
        /\ rank.question = <<>> => rank.keywords = <<>>
        /\ (\A p \in TokensOf(rank.question) :
                toLowerCase(SubSeq(rank.question, p[1], p[2])) \in stopWords) =>
               rank.keywords = <<>>

\* "Python,<tab>PYTHON v3?": a comma, a tab, capitals, a token of two
\* characters and a question mark; the keywords are python, python.
C39_PunctuationAndCapitals ==
    /\ rank.scored
    /\ rank.question = M_twice
    /\ Cardinality(TokensOf(rank.question)) = 3
    /\ rank.keywords = <<T_python, T_python>>

(* ------------------------------------------------------------------ *)
(* The knowledge base is read-only                                     *)
(* ------------------------------------------------------------------ *)
\* the ids of the entries ranking the question over the corpus gives
RankedIds(question, corpus, topN) ==
    LET entries == retrieveEntries(question, corpus, topN)
    IN  [i \in 1..Len(entries) |-> entries[i].id]

====
